---- MODULE Spec2Model ----
(***************************************************************************)
(* Business Tools Browser: the link validator (validate_url and the        *)
(* thread-pool batch), the fold of validation results into the table,      *)
(* process_files (merge, deduplicate, validate, save) and the description  *)
(* cache of the enrichment stage.                                          *)
(*                                                                         *)
(* Strings are tuples of one-character strings, so that strip, startswith  *)
(* and "'.' in url" are computed as Python computes them.                  *)
(***************************************************************************)
EXTENDS Integers, Sequences, FiniteSets, TLC

\* ------------------------------------------------------------------ bounds
\* Most URLs handed to one validate_urls_batch call in SpecBatch.
MaxUrls == 3
\* Widest pool LinkValidator is constructed with in SpecBatch.
MaxWorkers == 2
\* Most files handed to process_files, and most rows read over all of them.
MaxFiles == 2
MaxRows == 3
\* Most rows of a table handed to process_urls_in_dataframe.
MaxEnrichRows == 2
\* Most columns of a table handed to standardize_columns.
MaxCols == 3
\* Most threads the buttons of the window start in SpecGui.
MaxThreads == 2
\* Most rows of a table handed to sort_dataframe_alphabetically.
MaxSortRows == 3
\* Most lines of a file handed to import_data_file.
MaxFileLines == 11

\* import_data_file: the lines of a .csv file it reads before parsing: range(10)
SniffedLines == 10

\* LinkValidator.__init__: max_workers=20
DefaultMaxWorkers == 20

\* ----------------------------------------------------------------- strings
\* A missing cell (pandas NaN); pd.isna is true of it alone.
NaN == <<"<NaN>">>
isna(v) == v = NaN

EmptyStr == <<>>
HTTP_PREFIX == <<"h", "t", "t", "p", ":", "/", "/">>
HTTPS_PREFIX == <<"h", "t", "t", "p", "s", ":", "/", "/">>
WWW_PREFIX == <<"w", "w", "w", ".">>

startswith(s, p) == Len(s) >= Len(p) /\ SubSeq(s, 1, Len(p)) = p

contains(s, c) == \E i \in 1..Len(s) : s[i] = c

RECURSIVE lstrip(_)
lstrip(s) == IF s # <<>> /\ Head(s) = " " THEN lstrip(Tail(s)) ELSE s

RECURSIVE rstrip(_)
rstrip(s) == IF s # <<>> /\ s[Len(s)] = " " THEN rstrip(SubSeq(s, 1, Len(s) - 1)) ELSE s

strip(s) == rstrip(lstrip(s))

\* The URL values the model draws from.
U_blank == <<" ">>
U_nodot == <<"a", "b">>
U_bare == <<"a", ".", "t">>
U_padded == <<" ", "a", ".", "t">>
U_www == <<"w", "w", "w", ".", "a">>
U_http == HTTP_PREFIX \o <<"b", ".", "t">>
U_https == HTTPS_PREFIX \o U_bare
U_local == HTTP_PREFIX \o <<"b">>

InputURLs ==
    {NaN, EmptyStr, U_blank, U_nodot, U_bare, U_padded, U_www, U_http, U_https, U_local}

\* ------------------------------------------------------- network outcomes
None == <<>>
Some(c) == <<c>>

Response(c) == [kind |-> "response", code |-> c, text |-> ""]
Raised(k, t) == [kind |-> k, code |-> 0, text |-> t]

StatusCodes == {200, 399, 400, 404, 405}
ExceptionTexts == {"", "boom"}

\* What one HEAD or GET may end in: a response, or an exception of requests
\* (Timeout, ConnectionError, another RequestException) or any other Exception.
Outcomes ==
    {Response(c) : c \in StatusCodes}
    \cup {Raised("Timeout", "timed out"), Raised("ConnectionError", "refused")}
    \cup {Raised(k, t) : k \in {"RequestException", "Exception"}, t \in ExceptionTexts}

\* The outcomes a batch run draws from (SpecBatch, Spec).
BatchOutcomes == {Response(200), Response(405)}

\* ------------------------------------------------------------ validate_url
Statuses == {"empty", "invalid", "valid", "error", "timeout", "connection_error"}

Result(u, s, c, m) == [url |-> u, status |-> s, code |-> c, message |-> m]

NoResult == [url |-> NaN, status |-> "", code |-> None, message |-> ""]

\* The emptiness test without the strip.
IsEmptyInputUnstripped(url) == url = EmptyStr \/ isna(url)

\* Line 45: not url or pd.isna(url) or str(url).strip() == ''
IsEmptyInput(url) == url = EmptyStr \/ isna(url) \/ strip(url) = EmptyStr

HasScheme(url) == startswith(url, HTTP_PREFIX) \/ startswith(url, HTTPS_PREFIX)

\* Lines 48-55: the URL requested, or None for an invalid format.
NormalizeUrl(url) ==
    LET s == strip(url) IN
    IF HasScheme(s) THEN Some(s)
    ELSE IF startswith(s, WWW_PREFIX) THEN Some(HTTPS_PREFIX \o s)
    ELSE IF contains(s, ".") THEN Some(HTTPS_PREFIX \o s)
    ELSE None

\* The threshold taken one too high: 400 counted as valid.
FromResponseInclusive(url, code) ==
    IF code <= 400
    THEN Result(url, "valid", Some(code), "OK")
    ELSE Result(url, "error", Some(code), "HTTP " \o ToString(code))

\* Lines 62-65: the result of the final response.
FromResponse(url, code) ==
    IF code < 400
    THEN Result(url, "valid", Some(code), "OK")
    ELSE Result(url, "error", Some(code), "HTTP " \o ToString(code))

\* Without the closing "except Exception" clause.
HandledRequestsOnly == {"Timeout", "ConnectionError", "RequestException"}

\* The exception classes the except clauses of lines 67-74 catch, in order.
Handled == {"Timeout", "ConnectionError", "RequestException", "Exception"}

\* Lines 67-74: the result of an exception raised by HEAD or GET.
FromException(url, o) ==
    CASE o.kind = "Timeout" -> Result(url, "timeout", None, "Timeout")
      [] o.kind = "ConnectionError" -> Result(url, "connection_error", None, "Connection failed")
      [] o.kind = "RequestException" -> Result(url, "error", None, o.text)
      [] OTHER -> Result(url, "error", None, "Unexpected error: " \o o.text)

\* A request validate_url sent: its outcome is Outstanding until it ends.
Outstanding == [kind |-> "outstanding", code |-> 0, text |-> ""]
Request(m, u) == [method |-> m, url |-> u, outcome |-> Outstanding]
Ended(r, o) == [r EXCEPT !.outcome = o]

\* The GET retry on any error status.
NeedsGetOnError(o) == o.kind = "response" /\ o.code >= 400

\* Line 59: the HEAD response asks for the GET retry.
NeedsGet(o) == o.kind = "response" /\ o.code = 405


\* ---------------------------------------------------------------- state
VARIABLES
    max_workers,  \* LinkValidator.max_workers
    urls,         \* validate_urls_batch: the urls argument
    has_cb,       \* validate_urls_batch: a progress_callback was given
    bpc,          \* validate_urls_batch: "idle", "running", "returned", "raised"
    phase,        \* per submitted future: "queued", "head", "get", "done", "raised", "collected"
    jobres,       \* per submitted future: what validate_url returned
    reqs,         \* per submitted future: the requests validate_url issued, in order
    results,      \* validate_urls_batch: the results list
    order,        \* the futures in the order as_completed yielded them
    calls         \* the progress_callback invocations, in order: <<completed, total, result>>

bvars == <<max_workers, urls, has_cb, bpc, phase, jobres, reqs, results, order, calls>>

VARIABLES
    pc,                \* process_files: where the call stands
    n_files,           \* process_files: len(file_paths)
    file_i,            \* process_files: the file the loop is at (from 1)
    all_data,          \* process_files: the tables of the files read so far
    master_df,         \* process_files: the consolidated table
    progress,          \* the messages process_files itself gave progress_callback
    master_csv,        \* the file DATA_DIR/Master_Tools.csv
    validation_report, \* the file DATA_DIR/Link_Validation_Report.csv
    raised             \* process_files: the exception that ended the call, or None

pvars == <<pc, n_files, file_i, all_data, master_df, progress, master_csv, validation_report,
           raised>>

VARIABLES
    url_cache,     \* DataProcessor.url_cache of business_tools.py: URL -> description
    epc,           \* process_urls_in_dataframe: "idle" or "scan"
    edf,           \* process_urls_in_dataframe: the df argument
    df_processed,  \* process_urls_in_dataframe: the copy that is returned
    ecol,          \* the column the scan is at (from 1)
    eidx,          \* the row of that column the scan is at (from 1)
    descriptions,  \* the descriptions list of the column being scanned
    urls_found,    \* a URL was found in the column being scanned
    net_log,       \* the requests and delays of the call under way, in order
    fetches        \* per URL, the page fetches made for it so far (counted up to 2)

evars == <<url_cache, epc, edf, df_processed, ecol, eidx, descriptions, urls_found,
           net_log, fetches>>

VARIABLES
    crow,     \* classify_tool_access: the row argument
    caccess,  \* classify_tool_access: what the call returned ("" before it)
    sdf,      \* standardize_columns: the columns of the df argument
    sout      \* standardize_columns: the columns of the table returned

VARIABLES
    selected_files,  \* BusinessToolsGUI.selected_files is not empty
    current_data,    \* BusinessToolsGUI.current_data: None, or the table object it names
    threads,         \* the threads started by process_files and revalidate_links
    reading,         \* the table object a handler of the main thread is iterating, or None
    csv_exists,      \* the master CSV exists
    n_tables           \* the table objects created so far by reads of the master CSV

gvars == <<selected_files, current_data, threads, reading, csv_exists, n_tables>>

xvars == <<crow, caccess, sdf, sout, gvars>>

VARIABLES
    call,       \* the method of business_tools.py that is under way, or "idle"
    sort_df,    \* sort_dataframe_alphabetically: the rows of the df argument
    ascending,  \* sort_dataframe_alphabetically: the ascending argument
    sorted_df   \* sort_dataframe_alphabetically: the rows of the table returned

svars == <<sort_df, ascending, sorted_df>>

VARIABLES
    import_file,  \* import_data_file: the file that file_path names
    imported      \* import_data_file: what the call returned (None before it)

ivars == <<import_file, imported>>

VARIABLES
    in_callback   \* validate_urls_batch: the threads that are inside progress_callback

rvars == <<call, svars, ivars, in_callback>>

vars == <<bvars, pvars, evars, xvars, rvars>>

Jobs == 1..Len(urls)

\* The futures a pool worker is running: a request of theirs is outstanding.
InProgress == {j \in Jobs : phase[j] \in {"head", "get"}}

\* ThreadPoolExecutor: the work queue is first in, first out.
NextQueued(j) == phase[j] = "queued" /\ \A k \in Jobs : phase[k] = "queued" => j <= k

\* The state of the calls of business_tools.py before any was made.
InitCalls ==
    /\ call = "idle"
    /\ sort_df = <<>>
    /\ ascending = TRUE
    /\ sorted_df = <<>>
    /\ import_file = [exists |-> FALSE, suffix |-> "", lines |-> 0, parses |-> FALSE]
    /\ imported = None
    /\ in_callback = {}

\* The state of the calls of classify_tool_access and standardize_columns
\* before any was made.
InitExtra ==
    /\ crow = [url |-> NaN, description |-> NaN, name |-> NaN, category |-> NaN]
    /\ caccess = ""
    /\ sdf = <<>>
    /\ sout = <<>>
    /\ selected_files = FALSE
    /\ current_data = None
    /\ threads = <<>>
    /\ reading = None
    /\ csv_exists = FALSE
    /\ n_tables = 0
    /\ InitCalls

\* Lines 35-41: a LinkValidator, before any call.
InitValidator(widths) ==
    /\ max_workers \in widths
    /\ urls = <<>>
    /\ has_cb = FALSE
    /\ bpc = "idle"
    /\ phase = <<>>
    /\ jobres = <<>>
    /\ reqs = <<>>
    /\ results = <<>>
    /\ order = <<>>
    /\ calls = <<>>

\* ------------------------------------------------- validate_urls_batch
\* Lines 78-82: results = [], total = len(urls), every URL submitted to the pool.
SubmitAll(us, cb) ==
    /\ urls' = us
    /\ has_cb' = cb
    /\ bpc' = "running"
    /\ phase' = [j \in 1..Len(us) |-> "queued"]
    /\ jobres' = [j \in 1..Len(us) |-> NoResult]
    /\ reqs' = [j \in 1..Len(us) |-> <<>>]
    /\ results' = <<>>
    /\ order' = <<>>
    /\ calls' = <<>>
    /\ UNCHANGED max_workers

\* A pool that starts a thread per submitted future.
WorkerAlwaysFree == TRUE

\* A pool whose threads end after their first future: no more than max_workers
\* futures are ever taken.
WorkerNeverReused == Cardinality({j \in Jobs : phase[j] # "queued"}) < max_workers

\* A pool with max_workers threads takes a queued future only while fewer than
\* max_workers of them are busy.
WorkerFree == Cardinality(InProgress) < max_workers

\* A worker takes the next future and runs validate_url up to its first
\* request (lines 45-58): an empty or invalid input returns at once.
WorkerStart(j) ==
    /\ bpc = "running"
    /\ NextQueued(j)
    /\ WorkerFree
    /\ LET url == urls[j]
           n == NormalizeUrl(url)
       IN IF IsEmptyInput(url)
          THEN /\ phase' = [phase EXCEPT ![j] = "done"]
               /\ jobres' = [jobres EXCEPT ![j] = Result(url, "empty", None, "Empty URL")]
               /\ UNCHANGED reqs
          ELSE IF n = None
          THEN /\ phase' = [phase EXCEPT ![j] = "done"]
               /\ jobres' = [jobres EXCEPT ![j] =
                                 Result(strip(url), "invalid", None, "Invalid URL format")]
               /\ UNCHANGED reqs
          ELSE /\ phase' = [phase EXCEPT ![j] = "head"]
               /\ reqs' = [reqs EXCEPT ![j] = <<Request("HEAD", n[1])>>]
               /\ UNCHANGED jobres
    /\ UNCHANGED <<max_workers, urls, has_cb, bpc, results, order, calls>>

\* What validate_url does with the outcome o of its last request to url:
\* return a result, or let an exception no clause catches propagate.
Settle(j, url, o) ==
    IF o.kind = "response"
    THEN /\ phase' = [phase EXCEPT ![j] = "done"]
         /\ jobres' = [jobres EXCEPT ![j] = FromResponse(url, o.code)]
    ELSE IF o.kind \in Handled
    THEN /\ phase' = [phase EXCEPT ![j] = "done"]
         /\ jobres' = [jobres EXCEPT ![j] = FromException(url, o)]
    ELSE /\ phase' = [phase EXCEPT ![j] = "raised"]
         /\ UNCHANGED jobres

\* Lines 58-60: the HEAD request ends in o; a 405 response sends the GET.
HeadReturns(j, o) ==
    /\ bpc = "running"
    /\ phase[j] = "head"
    /\ LET url == reqs[j][1].url IN
       IF NeedsGet(o)
       THEN /\ phase' = [phase EXCEPT ![j] = "get"]
            /\ reqs' = [reqs EXCEPT ![j] = <<Ended(@[1], o), Request("GET", url)>>]
            /\ UNCHANGED jobres
       ELSE /\ Settle(j, url, o)
            /\ reqs' = [reqs EXCEPT ![j] = <<Ended(@[1], o)>>]
    /\ UNCHANGED <<max_workers, urls, has_cb, bpc, results, order, calls>>

\* Lines 60-74: the GET request ends in o.
GetReturns(j, o) ==
    /\ bpc = "running"
    /\ phase[j] = "get"
    /\ Settle(j, reqs[j][2].url, o)
    /\ reqs' = [reqs EXCEPT ![j] = <<@[1], Ended(@[2], o)>>]
    /\ UNCHANGED <<max_workers, urls, has_cb, bpc, results, order, calls>>

\* The callback given enumerate's zero-based index.
CallbackArgsZeroBased(i, total, result) == <<i, total, result>>

\* Line 89: progress_callback(i + 1, total, result), i the index enumerate gives.
CallbackArgs(i, total, result) == <<i + 1, total, result>>

\* Lines 84-89: as_completed yields a finished future; its result is appended
\* and reported. future.result() re-raises what validate_url raised.
Collect(j) ==
    /\ bpc = "running"
    /\ phase[j] \in {"done", "raised"}
    /\ IF phase[j] = "done"
       THEN /\ phase' = [phase EXCEPT ![j] = "collected"]
            /\ results' = Append(results, jobres[j])
            /\ order' = Append(order, j)
            /\ calls' = IF has_cb
                        THEN Append(calls, CallbackArgs(Len(results), Len(urls), jobres[j]))
                        ELSE calls
            /\ UNCHANGED bpc
       ELSE /\ bpc' = "raised"
            /\ UNCHANGED <<phase, results, order, calls>>
    /\ UNCHANGED <<max_workers, urls, has_cb, jobres, reqs>>

\* Returning once the first future was yielded.
BatchReturnEarly ==
    /\ bpc = "running"
    /\ \E j \in Jobs : phase[j] = "collected"
    /\ bpc' = "returned"
    /\ UNCHANGED <<max_workers, urls, has_cb, phase, jobres, reqs, results, order, calls>>

\* Lines 90-91: every future was yielded; the pool is shut down and the list returned.
BatchReturn ==
    /\ bpc = "running"
    /\ \A j \in Jobs : phase[j] = "collected"
    /\ bpc' = "returned"
    /\ UNCHANGED <<max_workers, urls, has_cb, phase, jobres, reqs, results, order, calls>>


SeqsUpTo(S, n) == UNION {[1..k -> S] : k \in 0..n}

NoRepeats(s) == \A a, b \in 1..Len(s) : s[a] = s[b] => a = b

\* ------------------------------------------------------------ the table
\* A row of the table: its index label and the columns the stages read or write.
Row(l, n, u, f) ==
    [label |-> l, name |-> n, url |-> u, source_file |-> f,
     link_status |-> "", link_code |-> EmptyStr, link_message |-> ""]

RowName(f, k) == <<"f", ToString(f), "r", ToString(k)>>
FileName(f) == <<"f", ToString(f)>>

\* What read_file may give for one file: an exception (FileNotFoundError,
\* ValueError, a failed read), or a table that has a url column or has none.
ReadFailed == [ok |-> FALSE, has_url |-> FALSE, cells |-> <<>>]
ReadTable(b, cs) == [ok |-> TRUE, has_url |-> b, cells |-> cs]

\* A cell of a url column as read from a file: missing, or a string.
FileURLs == {NaN, U_bare, U_https}

ReadOutcomes(n) ==
    {ReadFailed}
    \cup {ReadTable(TRUE, cs) : cs \in SeqsUpTo(FileURLs, n)}
    \cup {ReadTable(FALSE, cs) : cs \in SeqsUpTo({NaN}, n)}

\* Lines 245-247: standardize_columns creates a missing url column as '', and
\* source_file is set to the file's name. A table read from a file is labelled
\* from 0.
Standardized(f, t) ==
    [k \in 1..Len(t.cells) |->
        Row(k - 1, RowName(f, k), IF t.has_url THEN t.cells[k] ELSE EmptyStr, FileName(f))]

RECURSIVE Flatten(_)
Flatten(frames) == IF frames = <<>> THEN <<>> ELSE Head(frames) \o Flatten(Tail(frames))

\* Line 266: pd.concat(all_data, ignore_index=True): rows in order, relabelled from 0.
Concat(frames) ==
    LET rows == Flatten(frames) IN [k \in 1..Len(rows) |-> [rows[k] EXCEPT !.label = k - 1]]

\* keep='last': a row is dropped when a later row has its url.
RECURSIVE DropDuplicatesKeepLast(_)
DropDuplicatesKeepLast(df) ==
    IF df = <<>> THEN <<>>
    ELSE IF \E k \in 2..Len(df) : df[k].url = Head(df).url
         THEN DropDuplicatesKeepLast(Tail(df))
         ELSE <<Head(df)>> \o DropDuplicatesKeepLast(Tail(df))

\* Line 272: drop_duplicates(subset=['url'], keep='first'): a row is dropped when
\* its url was seen in an earlier row (missing values equal one another); the
\* rows kept keep their labels.
RECURSIVE DropSeen(_, _)
DropSeen(df, seen) ==
    IF df = <<>> THEN <<>>
    ELSE IF Head(df).url \in seen
         THEN DropSeen(Tail(df), seen)
         ELSE <<Head(df)>> \o DropSeen(Tail(df), seen \cup {Head(df).url})

DropDuplicates(df) == DropSeen(df, {})

\* Line 230: result['code'] if result['code'] else ''
LinkCode(c) == IF c = None \/ c = Some(0) THEN EmptyStr ELSE c

HasLabel(df, l) == \E k \in 1..Len(df) : df[k].label = l

\* Lines 229-231: df.loc[i, ...] = ...: the row labelled i is written; when no
\* row has that label, .loc adds one, its other columns missing.
SetLoc(df, i, r) ==
    IF HasLabel(df, i)
    THEN [k \in 1..Len(df) |->
            IF df[k].label = i
            THEN [df[k] EXCEPT !.link_status = r.status,
                               !.link_code = LinkCode(r.code),
                               !.link_message = r.message]
            ELSE df[k]]
    ELSE Append(df, [label |-> i, name |-> NaN, url |-> NaN, source_file |-> NaN,
                     link_status |-> r.status, link_code |-> LinkCode(r.code),
                     link_message |-> r.message])

\* Lines 228-231: for i, result in enumerate(validation_results).
RECURSIVE ApplyFrom(_, _, _)
ApplyFrom(df, res, i) ==
    IF i >= Len(res) THEN df ELSE ApplyFrom(SetLoc(df, i, res[i + 1]), res, i + 1)

ApplyResults(df, res) == ApplyFrom(df, res, 0)

\* Line 219: df['url'].tolist()
UrlColumn(df) == [k \in 1..Len(df) |-> df[k].url]

\* A file of DATA_DIR: absent, or holding rows. OldFile is a file that an
\* earlier run left there.
NoFile == None
OldFile == Some(<<[old |-> TRUE]>>)

\* to_csv(index=False): the rows without their labels.
CsvOf(df) == [k \in 1..Len(df) |-> [df[k] EXCEPT !.label = 0]]

\* Line 287: the columns of the validation report.
ReportOf(df) ==
    [k \in 1..Len(df) |->
        [name |-> df[k].name, url |-> df[k].url, link_status |-> df[k].link_status,
         link_code |-> df[k].link_code, link_message |-> df[k].link_message,
         source_file |-> df[k].source_file]]

\* Lines 97-98: the paths of the two output files.
MasterPath == "DATA_DIR/Master_Tools.csv"
ReportPath == "DATA_DIR/Link_Validation_Report.csv"

\* An exception: the statement of process_files it came out of (the file of a
\* to_csv call) and the pieces of its text.
ExceptionAt(where, message) == [at |-> where, message |-> message]

\* Lines 284 and 288: what to_csv(path) may do: write the file, or raise an
\* OSError. The text of one raised when the file is opened ends with the
\* file's name; the text of one raised while the rows are written does not.
Written == [ok |-> TRUE, opened |-> TRUE, message |-> <<>>]
WriteOutcomes(path) ==
    {Written,
     [ok |-> FALSE, opened |-> FALSE, message |-> <<"[Errno 13] Permission denied: ", path>>],
     [ok |-> FALSE, opened |-> TRUE, message |-> <<"[Errno 28] No space left on device">>]}

\* The file after to_csv: the rows, the file as it was when it could not be
\* opened, or the rows written before the write failed.
FileAfter(old, rows, w) ==
    IF w.ok THEN {Some(rows)}
    ELSE IF w.opened THEN {Some(SubSeq(rows, 1, n)) : n \in 0..Len(rows)}
    ELSE {old}

\* ------------------------------------------------------- process_files
InitProcessorWith(files) ==
    /\ pc = "idle"
    /\ n_files = 0
    /\ file_i = 0
    /\ all_data = <<>>
    /\ master_df = <<>>
    /\ progress = <<>>
    /\ master_csv \in files
    /\ validation_report = master_csv
    /\ raised = None

InitProcessor == InitProcessorWith({NoFile})

RowsRead == Len(Flatten(all_data))

\* Line 235: process_files(file_paths, progress_callback) is called.
ProcessFilesCall ==
    /\ pc = "idle"
    /\ \E n \in 0..MaxFiles : n_files' = n
    /\ file_i' = 1
    /\ pc' = "files"
    /\ UNCHANGED <<all_data, master_df, progress, master_csv, validation_report, raised>>

\* The loop over file_paths left at the first file that fails (break where
\* line 257 has continue).
ProcessFileStopsAtFailure ==
    /\ pc = "files"
    /\ file_i <= n_files
    /\ \E t \in ReadOutcomes(MaxRows - RowsRead) :
          IF t.ok
          THEN /\ all_data' = Append(all_data, Standardized(file_i, t))
               /\ progress' = Append(progress, <<"Processing file", file_i, n_files>>)
               /\ file_i' = file_i + 1
          ELSE /\ progress' = progress \o <<<<"Processing file", file_i, n_files>>,
                                             <<"Error processing", file_i, n_files>>>>
               /\ file_i' = n_files + 1
               /\ UNCHANGED all_data
    /\ UNCHANGED <<pc, n_files, master_df, master_csv, validation_report, raised>>

\* Lines 239-257: one turn of the loop over file_paths: the file is read,
\* standardized and appended, or its failure is reported and the file skipped.
ProcessFile ==
    /\ pc = "files"
    /\ file_i <= n_files
    /\ \E t \in ReadOutcomes(MaxRows - RowsRead) :
          IF t.ok
          THEN /\ all_data' = Append(all_data, Standardized(file_i, t))
               /\ progress' = Append(progress, <<"Processing file", file_i, n_files>>)
          ELSE /\ progress' = progress \o <<<<"Processing file", file_i, n_files>>,
                                             <<"Error processing", file_i, n_files>>>>
               /\ UNCHANGED all_data
    /\ file_i' = file_i + 1
    /\ UNCHANGED <<pc, n_files, master_df, master_csv, validation_report, raised>>

\* The tables concatenated without the check of lines 259-260.
CombineUnchecked ==
    /\ pc = "files"
    /\ file_i > n_files
    /\ pc' = "combined"
    /\ master_df' = Concat(all_data)
    /\ progress' = Append(progress, <<"Combining data", 0, 0>>)
    /\ UNCHANGED <<n_files, file_i, all_data, master_csv, validation_report, raised>>

\* Lines 259-266: after the loop: no table read raises; otherwise the tables
\* are concatenated.
Combine ==
    /\ pc = "files"
    /\ file_i > n_files
    /\ IF all_data = <<>>
       THEN /\ pc' = "error"
            /\ raised' = Some(ExceptionAt("all_data", <<"No files were successfully processed">>))
            /\ UNCHANGED <<master_df, progress>>
       ELSE /\ pc' = "combined"
            /\ master_df' = Concat(all_data)
            /\ progress' = Append(progress, <<"Combining data", 0, 0>>)
            /\ UNCHANGED raised
    /\ UNCHANGED <<n_files, file_i, all_data, master_csv, validation_report>>

\* Lines 268-272: duplicates are removed.
Deduplicate ==
    /\ pc = "combined"
    /\ master_df' = DropDuplicates(master_df)
    /\ progress' = Append(progress, <<"Removing duplicate entries", 0, 0>>)
    /\ pc' = "deduped"
    /\ UNCHANGED <<n_files, file_i, all_data, master_csv, validation_report, raised>>

\* Lines 274-278 and 216-225: validate_links_with_progress hands the url column
\* to validate_urls_batch, with update_progress as the callback.
ValidateLinksCall ==
    /\ pc = "deduped"
    /\ bpc = "idle"
    /\ SubmitAll(UrlColumn(master_df), TRUE)
    /\ progress' = Append(progress, <<"Starting link validation", 0, 0>>)
    /\ pc' = "validating"
    /\ UNCHANGED <<n_files, file_i, all_data, master_df, master_csv, validation_report, raised>>

\* Lines 227-233: the batch has returned and its results are written into the table.
FoldResults ==
    /\ pc = "validating"
    /\ bpc \in {"returned", "raised"}
    /\ IF bpc = "returned"
       THEN /\ master_df' = ApplyResults(master_df, results)
            /\ pc' = "validated"
            /\ UNCHANGED raised
       ELSE /\ pc' = "error"
            /\ raised' = Some(ExceptionAt("validate_url", <<>>))
            /\ UNCHANGED master_df
    /\ UNCHANGED <<n_files, file_i, all_data, progress, master_csv, validation_report>>

\* Lines 280-284: the master CSV is written; a failed write raises.
SaveMaster ==
    /\ pc = "validated"
    /\ progress' = Append(progress, <<"Saving master CSV", 0, 0>>)
    /\ \E w \in WriteOutcomes(MasterPath) :
          /\ master_csv' \in FileAfter(master_csv, CsvOf(master_df), w)
          /\ IF w.ok
             THEN pc' = "saved" /\ UNCHANGED raised
             ELSE pc' = "error" /\ raised' = Some(ExceptionAt(MasterPath, w.message))
    /\ UNCHANGED <<n_files, file_i, all_data, master_df, validation_report>>

\* Lines 286-288: the validation report is written; a failed write raises.
SaveReport ==
    /\ pc = "saved"
    /\ \E w \in WriteOutcomes(ReportPath) :
          /\ validation_report' \in FileAfter(validation_report, ReportOf(master_df), w)
          /\ IF w.ok
             THEN pc' = "reported" /\ UNCHANGED raised
             ELSE pc' = "error" /\ raised' = Some(ExceptionAt(ReportPath, w.message))
    /\ UNCHANGED <<n_files, file_i, all_data, master_df, progress, master_csv>>

\* The completion message given once the master CSV is written, before the
\* validation report.
CompleteBeforeReport ==
    /\ pc = "saved"
    /\ progress' = Append(progress, <<"Processing complete", Len(master_df), 0>>)
    /\ pc' = "done"
    /\ UNCHANGED <<n_files, file_i, all_data, master_df, master_csv, validation_report, raised>>

\* Lines 290-293: the completion message, and the return.
Complete ==
    /\ pc = "reported"
    /\ progress' = Append(progress, <<"Processing complete", Len(master_df), 0>>)
    /\ pc' = "done"
    /\ UNCHANGED <<n_files, file_i, all_data, master_df, master_csv, validation_report, raised>>

\* ---------------------------------------------- business_tools.py: enrichment
\* A cell is its text as the sequence of its whitespace-separated words, each a
\* tuple of characters; a description is a cell of one word holding the text.
NaNCell == <<NaN>>
Text(t) == <<<<t>>>>
EmptyCell == <<>>

W_see == <<"S", "e", "e">>
E_domain == <<"a", ".", "i", "o">>
E_https == HTTPS_PREFIX \o E_domain
E_http == HTTP_PREFIX \o <<"b", ".", "i", "o">>
E_www == WWW_PREFIX \o E_domain

Alnum == {"a", "b", "e", "h", "i", "o", "p", "s", "t", "w", "S"}

\* Lines 247-251, on one word that holds no character outside the classes of the
\* pattern: the word is matched whole by the scheme alternative, else by the
\* www. alternative, else by the domain alternative (labels of letters and
\* digits ended by dots, then two letters or more), or not at all.
MatchesScheme(w) ==
    \/ startswith(w, HTTP_PREFIX) /\ Len(w) > Len(HTTP_PREFIX)
    \/ startswith(w, HTTPS_PREFIX) /\ Len(w) > Len(HTTPS_PREFIX)

MatchesWww(w) == startswith(w, WWW_PREFIX) /\ Len(w) > Len(WWW_PREFIX)

MatchesDomain(w) ==
    LET dots == {i \in 1..Len(w) : w[i] = "."} IN
    /\ dots # {}
    /\ \A i \in 1..Len(w) : w[i] \in Alnum \cup {"."}
    /\ 1 \notin dots
    /\ \A i \in dots : i + 1 \notin dots
    /\ \A i \in dots : i <= Len(w) - 2
    /\ \E i \in dots : i = Len(w) - 2 \/ (i < Len(w) - 2 /\ \A k \in (i + 1)..Len(w) : k \notin dots)

IsUrlWord(w) == MatchesScheme(w) \/ MatchesWww(w) \/ MatchesDomain(w)

\* Lines 253-254: findall, then the matches longer than 3 characters.
RECURSIVE detect_urls_in_text(_)
detect_urls_in_text(cell) ==
    IF cell = <<>> THEN <<>>
    ELSE IF IsUrlWord(Head(cell)) /\ Len(Head(cell)) > 3
         THEN <<Head(cell)>> \o detect_urls_in_text(Tail(cell))
         ELSE detect_urls_in_text(Tail(cell))

\* What the page fetch of extract_url_description may end in: a page with the
\* title the extraction chain finds (none: ""), a timeout, a connection
\* failure, or an error status.
Page(t) == [kind |-> "page", code |-> 200, text |-> t]
FetchOutcomes ==
    {Page("Docs"), Raised("Timeout", ""), [kind |-> "HTTPError", code |-> 404, text |-> ""]}

\* Lines 157-159: urlparse(url) has a scheme and a netloc.
HasSchemeAndNetloc(url) == MatchesScheme(url)

\* Without the closing "except Exception" clause of extract_url_description.
FetchHandledRequestsOnly == {"Timeout", "ConnectionError", "HTTPError"}

\* The exception classes the except clauses of lines 224-231 catch.
FetchHandled == {"Timeout", "ConnectionError", "HTTPError", "Exception"}

\* Lines 176-231: the description for what the fetch ended in.
DescriptionOf(o) ==
    CASE o.kind = "page" -> IF o.text # "" THEN Text(o.text) ELSE Text("No description found")
      [] o.kind = "Timeout" -> Text("Request timeout")
      [] o.kind = "ConnectionError" -> Text("Connection failed")
      [] o.kind = "HTTPError" -> Text("HTTP error: " \o ToString(o.code))
      [] OTHER -> Text("Error: " \o o.text)

\* Lines 144-231: extract_url_description(url), the fetch ending in o: the
\* description returned and the requests made.
extract_url_description(url, o) ==
    IF ~HasSchemeAndNetloc(url)
    THEN [description |-> Text("Invalid URL format"), log |-> <<>>, raised |-> FALSE]
    ELSE [description |-> DescriptionOf(o), log |-> <<<<"GET", url, o.kind>>>>,
          raised |-> o.kind # "page" /\ o.kind \notin FetchHandled]

\* The tables handed to process_urls_in_dataframe: a Link column, then a
\* Description column or none, then a Synopsis column or none.
Layouts == {<<"Link">>, <<"Link", "Description">>, <<"Link", "Description", "Synopsis">>}

CellsOf(col) ==
    CASE col = "Link" -> {<<W_see, E_https>>, <<E_http>>, <<E_www>>}
      [] col = "Description" -> {NaNCell, Text("kept")}
      [] OTHER -> {NaNCell, Text("synopsis")}

RowsOf(cols) == {r \in [1..Len(cols) -> UNION {CellsOf(cols[c]) : c \in 1..Len(cols)}] :
                    \A c \in 1..Len(cols) : r[c] \in CellsOf(cols[c])}

EnrichTables ==
    UNION {{[cols |-> cols, rows |-> rs] : rs \in SeqsUpTo(RowsOf(cols), MaxEnrichRows)} :
              cols \in Layouts}

\* Lines 334-339: col.strip().lower() of the column names the tables have.
ColumnKey(col) ==
    CASE col = "Description" -> "description"
      [] col = "Synopsis" -> "synopsis"
      [] OTHER -> "link"

\* The last column whose key is k, or 0.
ColumnWithKey(df, k) ==
    LET hits == {c \in 1..Len(df.cols) : ColumnKey(df.cols[c]) = k} IN
    IF hits = {} THEN 0 ELSE CHOOSE c \in hits : \A d \in hits : d <= c

\* Lines 366 and 370: pd.isna(v) or str(v).strip().lower() in ('', 'nan', 'none')
IsBlankCell(v) == v = NaNCell \/ v = EmptyCell \/ v \in {Text("nan"), Text("none"), Text("None")}

\* The cache with url -> d added (line 359).
CachePut(cache, url, d) ==
    [u \in DOMAIN cache \cup {url} |-> IF u = url THEN d ELSE cache[u]]

\* The count of fetches for url raised by n, counted up to 2.
Counted(f, url, n) ==
    LET old == IF url \in DOMAIN f THEN f[url] ELSE 0
        new == IF old + n > 2 THEN 2 ELSE old + n
    IN [u \in DOMAIN f \cup {url} |-> IF u = url THEN new ELSE f[u]]

\* No delay after a fetch.
NoDelay(url) == <<>>

\* Line 360: time.sleep(0.5), as the entry it leaves in the log of the call.
Delay(url) == <<<<"sleep", url>>>>

\* A lookup that never finds the URL.
CacheAlwaysMiss(cache, url) == FALSE

\* Line 355: url in self.url_cache
CacheHit(cache, url) == url \in DOMAIN cache

SetCell(df, r, c, v) == [df EXCEPT !.rows[r][c] = v]

\* The fetched description preferred over the synopsis.
FillDescriptionFetchedFirst(df, r, d) ==
    LET dc == ColumnWithKey(df, "description")
    IN IF dc = 0 \/ ~IsBlankCell(df.rows[r][dc]) THEN df ELSE SetCell(df, r, dc, d)

\* Lines 364-375: with a Description column, its empty cell of row r is filled
\* with the row's synopsis when there is a non-empty one, else with d.
FillDescription(df, r, d) ==
    LET dc == ColumnWithKey(df, "description")
        sc == ColumnWithKey(df, "synopsis")
    IN IF dc = 0 \/ ~IsBlankCell(df.rows[r][dc]) THEN df
       ELSE IF sc # 0 /\ ~IsBlankCell(df.rows[r][sc]) THEN SetCell(df, r, dc, df.rows[r][sc])
       ELSE SetCell(df, r, dc, d)

InitEnricher ==
    /\ url_cache = <<>>
    /\ epc = "idle"
    /\ edf = [cols |-> <<>>, rows |-> <<>>]
    /\ df_processed = [cols |-> <<>>, rows |-> <<>>]
    /\ ecol = 0
    /\ eidx = 0
    /\ descriptions = <<>>
    /\ urls_found = FALSE
    /\ net_log = <<>>
    /\ fetches = <<>>

\* Lines 327-342: process_urls_in_dataframe(df) is called: the copy is taken
\* and the scan starts at the first column.
EnrichCallOn(tables) ==
    /\ epc = "idle"
    /\ \E df \in tables : edf' = df /\ df_processed' = df
    /\ epc' = "scan"
    /\ ecol' = 1
    /\ eidx' = 1
    /\ descriptions' = <<>>
    /\ urls_found' = FALSE
    /\ net_log' = <<>>
    /\ UNCHANGED <<url_cache, fetches>>

\* Lines 345-377: one cell of the column: a missing cell or one without a URL
\* gets an empty description; the first URL of the cell is looked up in the
\* cache, or fetched, cached and followed by the delay.
ScanCellWith(outcomes) ==
    /\ epc = "scan"
    /\ ecol <= Len(edf.cols)
    /\ eidx <= Len(edf.rows)
    /\ LET cell == edf.rows[eidx][ecol]
           found == IF cell = NaNCell THEN <<>> ELSE detect_urls_in_text(cell)
       IN IF found = <<>>
          THEN /\ descriptions' = Append(descriptions, EmptyCell)
               /\ eidx' = eidx + 1
               /\ UNCHANGED <<epc, url_cache, df_processed, urls_found, net_log, fetches>>
          ELSE LET url == found[1] IN
               /\ urls_found' = TRUE
               /\ \E o \in outcomes :
                     LET got == extract_url_description(url, o)
                         d == IF CacheHit(url_cache, url) THEN url_cache[url]
                              ELSE got.description
                     IN IF CacheHit(url_cache, url)
                        THEN /\ descriptions' = Append(descriptions, d)
                             /\ df_processed' = FillDescription(df_processed, eidx, d)
                             /\ eidx' = eidx + 1
                             /\ UNCHANGED <<epc, url_cache, net_log, fetches>>
                        ELSE IF got.raised
                        THEN /\ epc' = "aborted"
                             /\ net_log' = net_log \o got.log
                             /\ fetches' = Counted(fetches, url, Len(got.log))
                             /\ UNCHANGED <<url_cache, descriptions, df_processed, eidx>>
                        ELSE /\ url_cache' = CachePut(url_cache, url, d)
                             /\ net_log' = net_log \o got.log \o Delay(url)
                             /\ fetches' = Counted(fetches, url, Len(got.log))
                             /\ descriptions' = Append(descriptions, d)
                             /\ df_processed' = FillDescription(df_processed, eidx, d)
                             /\ eidx' = eidx + 1
                             /\ UNCHANGED epc
    /\ UNCHANGED <<edf, ecol>>

\* The scan step of SpecEnrich.
ScanCell == ScanCellWith(FetchOutcomes)

\* Lines 378-383: the column is done: with a URL found in it, its descriptions
\* are added as a new column.
EndColumn ==
    /\ epc = "scan"
    /\ ecol <= Len(edf.cols)
    /\ eidx > Len(edf.rows)
    /\ df_processed' =
          IF urls_found
          THEN [cols |-> Append(df_processed.cols, edf.cols[ecol] \o "_Description"),
                rows |-> [r \in 1..Len(df_processed.rows) |->
                             Append(df_processed.rows[r], descriptions[r])]]
          ELSE df_processed
    /\ ecol' = ecol + 1
    /\ eidx' = 1
    /\ descriptions' = <<>>
    /\ urls_found' = FALSE
    /\ UNCHANGED <<url_cache, epc, edf, net_log, fetches>>

\* The scan is over and df_processed is about to be returned.
Returning == epc = "scan" /\ ecol > Len(edf.cols)

\* Lines 389-391: an exception ended the scan, and df is about to be returned.
Aborted == epc = "aborted"

\* The table the call is about to return.
ReturnValue == IF Aborted THEN edf ELSE df_processed

\* Lines 384-388: every column was scanned; df_processed is returned, and the
\* call's own variables are gone.
EnrichReturn ==
    /\ Returning \/ Aborted
    /\ epc' = "idle"
    /\ edf' = [cols |-> <<>>, rows |-> <<>>]
    /\ df_processed' = [cols |-> <<>>, rows |-> <<>>]
    /\ ecol' = 0
    /\ eidx' = 0
    /\ net_log' = <<>>
    /\ descriptions' = <<>>
    /\ urls_found' = FALSE
    /\ UNCHANGED <<url_cache, fetches>>

\* ------------------------------------------------------------ SpecEnrich
\* One DataProcessor of business_tools.py and process_urls_in_dataframe calls on it.
\* The call of SpecEnrich.
EnrichCall == EnrichCallOn(EnrichTables)

InitEnrich == InitValidator({DefaultMaxWorkers}) /\ InitProcessor /\ InitEnricher /\ InitExtra

NextEnrich ==
    \/ EnrichCall /\ UNCHANGED <<bvars, pvars, xvars, rvars>>
    \/ ScanCell /\ UNCHANGED <<bvars, pvars, xvars, rvars>>
    \/ EndColumn /\ UNCHANGED <<bvars, pvars, xvars, rvars>>
    \/ EnrichReturn /\ UNCHANGED <<bvars, pvars, xvars, rvars>>

SpecEnrich == InitEnrich /\ [][NextEnrich]_vars

\* -------------------------------------------------------------- SpecFill
\* process_urls_in_dataframe on tables with a Description column, with or
\* without a Synopsis column, whose cells are missing, empty, a text, or one of
\* the texts line 366 takes for empty; every fetch gives a page.
FillLayouts == {<<"Link", "Description">>, <<"Link", "Description", "Synopsis">>}

FillCellsOf(col) ==
    CASE col = "Link" -> {<<E_http>>, <<W_see>>}
      [] col = "Description" -> {NaNCell, EmptyCell, Text("kept"), Text("none")}
      [] OTHER -> {NaNCell, Text("synopsis"), Text("nan")}

FillRowsOf(cols) ==
    {r \in [1..Len(cols) -> UNION {FillCellsOf(cols[c]) : c \in 1..Len(cols)}] :
        \A c \in 1..Len(cols) : r[c] \in FillCellsOf(cols[c])}

FillTables ==
    UNION {{[cols |-> cols, rows |-> rs] : rs \in SeqsUpTo(FillRowsOf(cols), MaxEnrichRows)} :
              cols \in FillLayouts}

FillOutcomes == {Page("Docs")}

NextFill ==
    \/ EnrichCallOn(FillTables) /\ UNCHANGED <<bvars, pvars, xvars, rvars>>
    \/ ScanCellWith(FillOutcomes) /\ UNCHANGED <<bvars, pvars, xvars, rvars>>
    \/ EndColumn /\ UNCHANGED <<bvars, pvars, xvars, rvars>>
    \/ EnrichReturn /\ UNCHANGED <<bvars, pvars, xvars, rvars>>

SpecFill == InitEnrich /\ [][NextFill]_vars

\* ------------------------------------------------------------- SpecFetch
\* process_urls_in_dataframe on tables of one column, under every way the page
\* fetch may end: a page with a title or with none, a timeout, a connection
\* failure, an error status, or any other exception.
FetchTables ==
    {[cols |-> <<"Link">>, rows |-> rs] :
        rs \in SeqsUpTo({<<<<E_https>>>>, <<<<E_http>>>>, <<<<W_see>>>>}, MaxEnrichRows)}

AllFetchOutcomes ==
    {Page("Docs"), Page(""), Raised("Timeout", ""), Raised("ConnectionError", ""),
     [kind |-> "HTTPError", code |-> 404, text |-> ""], Raised("Exception", "boom")}

NextFetch ==
    \/ EnrichCallOn(FetchTables) /\ UNCHANGED <<bvars, pvars, xvars, rvars>>
    \/ ScanCellWith(AllFetchOutcomes) /\ UNCHANGED <<bvars, pvars, xvars, rvars>>
    \/ EndColumn /\ UNCHANGED <<bvars, pvars, xvars, rvars>>
    \/ EnrichReturn /\ UNCHANGED <<bvars, pvars, xvars, rvars>>

SpecFetch == InitEnrich /\ [][NextFetch]_vars

\* ------------------------------------------------- classify_tool_access
\* str.lower(), letter by letter.
UPPER == <<"A", "B", "C", "D", "E", "F", "G", "H", "I", "J", "K", "L", "M", "N", "O", "P", "Q", "R", "S", "T", "U", "V", "W", "X", "Y", "Z">>
LOWER == <<"a", "b", "c", "d", "e", "f", "g", "h", "i", "j", "k", "l", "m", "n", "o", "p", "q", "r", "s", "t", "u", "v", "w", "x", "y", "z">>

LowerChar(c) ==
    IF \E i \in 1..Len(UPPER) : UPPER[i] = c
    THEN LOWER[CHOOSE i \in 1..Len(UPPER) : UPPER[i] = c]
    ELSE c

lower(s) == [i \in 1..Len(s) |-> LowerChar(s[i])]

\* str(v): a missing cell reads nan.
str(v) == IF isna(v) THEN <<"n", "a", "n">> ELSE v

\* Python's "k in s" for strings.
occurs(k, s) == \E i \in 0..(Len(s) - Len(k)) : SubSeq(s, i + 1, i + Len(k)) = k

\* Line 194
internal_keywords ==
    <<<<"i", "n", "t", "e", "r", "n", "a", "l">>,
      <<"i", "n", "t", "r", "a", "n", "e", "t">>,
      <<"p", "r", "i", "v", "a", "t", "e">>,
      <<"c", "o", "r", "p">>,
      <<"c", "o", "m", "p", "a", "n", "y">>,
      <<"l", "o", "c", "a", "l", "h", "o", "s", "t">>,
      <<"1", "9", "2", ".", "1", "6", "8">>,
      <<"1", "0", ".", "0">>,
      <<"1", "7", "2", ".", "1", "6">>>>

\* Line 196
public_keywords ==
    <<<<"p", "u", "b", "l", "i", "c">>,
      <<"o", "p", "e", "n">>,
      <<"f", "r", "e", "e">>,
      <<"c", "o", "m", "m", "u", "n", "i", "t", "y">>,
      <<"g", "i", "t", "h", "u", "b">>,
      <<"g", "o", "o", "g", "l", "e">>,
      <<"m", "i", "c", "r", "o", "s", "o", "f", "t">>>>

\* Line 209
public_domains ==
    <<<<".", "c", "o", "m">>,
      <<".", "o", "r", "g">>,
      <<".", "n", "e", "t">>,
      <<".", "g", "o", "v">>,
      <<".", "e", "d", "u">>>>

\* Lines 189-212: classify_tool_access(row).
classify_tool_access(row) ==
    LET url == lower(str(row.url))
        description == lower(str(row.description))
        name == lower(str(row.name))
        hit(keyword) == occurs(keyword, url) \/ occurs(keyword, description)
                        \/ occurs(keyword, name)
    IN IF \E i \in 1..Len(internal_keywords) : hit(internal_keywords[i]) THEN "Internal"
       ELSE IF \E i \in 1..Len(public_keywords) : hit(public_keywords[i]) THEN "Public"
       ELSE IF \E i \in 1..Len(public_domains) : occurs(public_domains[i], url) THEN "Public"
       ELSE "Unknown"

\* The rows classify_tool_access is called on.
C_io == <<"h", "t", "t", "p", "s", ":", "/", "/", "a", ".", "i", "o">>
C_com == <<"h", "t", "t", "p", "s", ":", "/", "/", "a", ".", "c", "o", "m">>
C_com_path == <<"h", "t", "t", "p", "s", ":", "/", "/", "a", ".", "c", "o", "m", "/", "x">>
C_net_io == <<"h", "t", "t", "p", "s", ":", "/", "/", "a", ".", "n", "e", "t", ".", "i", "o">>
C_corp == <<"h", "t", "t", "p", ":", "/", "/", "c", "o", "r", "p", ".", "c", "o", "m">>
C_github == <<"h", "t", "t", "p", "s", ":", "/", "/", "g", "i", "t", "h", "u", "b", ".", "i", "o">>
ClassifyURLs == {C_io, C_com, C_com_path, C_net_io, C_corp, C_github}
ClassifyDescriptions == {NaN, <<"F", "r", "e", "e">>, <<"I", "n", "t", "r", "a", "n", "e", "t">>}
ClassifyNames == {<<"T", "o", "o", "l">>, <<"O", "p", "e", "n">>, <<"P", "r", "i", "v", "a", "t", "e">>}
ClassifyCategories == {EmptyStr, <<"x">>}

ClassifyRows ==
    {[url |-> u, description |-> d, name |-> n, category |-> c] :
        u \in ClassifyURLs, d \in ClassifyDescriptions, n \in ClassifyNames,
        c \in ClassifyCategories}

NoRow == [url |-> NaN, description |-> NaN, name |-> NaN, category |-> NaN]

\* Line 250: df.apply(self.classify_tool_access, axis=1) calls it on a row.
ClassifyCall ==
    /\ caccess # "called"
    /\ crow' \in ClassifyRows
    /\ caccess' = "called"
    /\ UNCHANGED <<sdf, sout, gvars>>

\* Lines 201-212: the call returns its tag.
ClassifyReturn ==
    /\ caccess = "called"
    /\ caccess' = classify_tool_access(crow)
    /\ UNCHANGED <<crow, sdf, sout, gvars>>

NextClassify ==
    \/ ClassifyCall /\ UNCHANGED <<bvars, pvars, evars, rvars>>
    \/ ClassifyReturn /\ UNCHANGED <<bvars, pvars, evars, rvars>>

InitClassify ==
    InitValidator({DefaultMaxWorkers}) /\ InitProcessor /\ InitEnricher /\ InitExtra

SpecClassify == InitClassify /\ [][NextClassify]_vars

\* --------------------------------------------------- standardize_columns
\* Lines 103-110: column_mappings, in the order of the dict.
column_mappings ==
    <<[standard |-> <<"n", "a", "m", "e">>,
      variations |-> <<<<"n", "a", "m", "e">>,
                      <<"t", "o", "o", "l", "_", "n", "a", "m", "e">>,
                      <<"t", "o", "o", "l">>,
                      <<"t", "i", "t", "l", "e">>,
                      <<"a", "p", "p", "l", "i", "c", "a", "t", "i", "o", "n">>,
                      <<"s", "e", "r", "v", "i", "c", "e">>>>],
     [standard |-> <<"d", "e", "s", "c", "r", "i", "p", "t", "i", "o", "n">>,
      variations |-> <<<<"d", "e", "s", "c", "r", "i", "p", "t", "i", "o", "n">>,
                      <<"d", "e", "s", "c">>,
                      <<"s", "u", "m", "m", "a", "r", "y">>,
                      <<"o", "v", "e", "r", "v", "i", "e", "w">>,
                      <<"a", "b", "o", "u", "t">>>>],
     [standard |-> <<"u", "r", "l">>,
      variations |-> <<<<"u", "r", "l">>,
                      <<"l", "i", "n", "k">>,
                      <<"w", "e", "b", "s", "i", "t", "e">>,
                      <<"w", "e", "b", "_", "a", "d", "d", "r", "e", "s", "s">>,
                      <<"s", "i", "t", "e">>>>],
     [standard |-> <<"c", "a", "t", "e", "g", "o", "r", "y">>,
      variations |-> <<<<"c", "a", "t", "e", "g", "o", "r", "y">>,
                      <<"t", "y", "p", "e">>,
                      <<"c", "l", "a", "s", "s", "i", "f", "i", "c", "a", "t", "i", "o", "n">>,
                      <<"g", "r", "o", "u", "p">>>>],
     [standard |-> <<"a", "c", "c", "e", "s", "s">>,
      variations |-> <<<<"a", "c", "c", "e", "s", "s">>,
                      <<"a", "v", "a", "i", "l", "a", "b", "i", "l", "i", "t", "y">>,
                      <<"a", "c", "c", "e", "s", "s", "_", "t", "y", "p", "e">>,
                      <<"p", "u", "b", "l", "i", "c">>,
                      <<"i", "n", "t", "e", "r", "n", "a", "l">>>>],
     [standard |-> <<"n", "o", "t", "e", "s">>,
      variations |-> <<<<"n", "o", "t", "e", "s">>,
                      <<"c", "o", "m", "m", "e", "n", "t", "s">>,
                      <<"r", "e", "m", "a", "r", "k", "s">>,
                      <<"a", "d", "d", "i", "t", "i", "o", "n", "a", "l", "_", "i", "n", "f", "o">>>>]>>

\* Lines 179-183: the metadata columns, in the order they are set.
S_source_file == <<"s", "o", "u", "r", "c", "e", "_", "f", "i", "l", "e">>
S_date_processed == <<"d", "a", "t", "e", "_", "p", "r", "o", "c", "e", "s", "s", "e", "d">>
S_link_status == <<"l", "i", "n", "k", "_", "s", "t", "a", "t", "u", "s">>
S_link_code == <<"l", "i", "n", "k", "_", "c", "o", "d", "e">>
S_link_message == <<"l", "i", "n", "k", "_", "m", "e", "s", "s", "a", "g", "e">>
metadata_columns == <<S_source_file, S_date_processed, S_link_status, S_link_code, S_link_message>>

\* A column of a table: its header and where its values come from: the input
\* column of that header, the empty string, or the time of the call.
Column(h, v) == [header |-> h, values |-> v]
EmptyValues == <<"''">>
NowValues == <<"now">>

Headers(df) == [c \in 1..Len(df) |-> df[c].header]

InSeq(x, s) == \E i \in 1..Len(s) : s[i] = x

IndexOf(x, s) == CHOOSE i \in 1..Len(s) : s[i] = x /\ \A k \in 1..(i - 1) : s[k] # x

\* Line 161: [col.lower().strip() for col in df_copy.columns]
current_columns(df) == [c \in 1..Len(df) |-> strip(lower(df[c].header))]

\* Lines 164-168: the first variation of the list that is among the current
\* columns, as a sequence of none or one.
RECURSIVE FirstMatch(_, _)
FirstMatch(variations, current) ==
    IF variations = <<>> THEN <<>>
    ELSE IF InSeq(lower(Head(variations)), current) THEN <<lower(Head(variations))>>
    ELSE FirstMatch(Tail(variations), current)

\* Lines 163-168: column_map, as the set of pairs <<original header, standard name>>.
column_map(df) ==
    {<<df[IndexOf(FirstMatch(column_mappings[k].variations, current_columns(df))[1],
                  current_columns(df))].header,
       column_mappings[k].standard>> :
        k \in {k \in 1..Len(column_mappings) :
                  FirstMatch(column_mappings[k].variations, current_columns(df)) # <<>>}}

\* Line 171: rename(columns=column_map): a header that is a key of the map is
\* replaced, and every other column stays as it is.
Renamed(df) ==
    LET cmap == column_map(df) IN
    [c \in 1..Len(df) |->
        IF \E p \in cmap : p[1] = df[c].header
        THEN Column((CHOOSE p \in cmap : p[1] = df[c].header)[2], df[c].values)
        ELSE df[c]]

\* df[h] = v: the column of that header gets the value, or a new last column is added.
Assign(df, h, v) ==
    IF InSeq(h, Headers(df))
    THEN [c \in 1..Len(df) |-> IF df[c].header = h THEN Column(h, v) ELSE df[c]]
    ELSE Append(df, Column(h, v))

\* Lines 174-176: every standard column that is not there is added empty.
RECURSIVE EnsureStandard(_, _)
EnsureStandard(df, k) ==
    IF k > Len(column_mappings) THEN df
    ELSE EnsureStandard(
            IF InSeq(column_mappings[k].standard, Headers(df)) THEN df
            ELSE Append(df, Column(column_mappings[k].standard, EmptyValues)),
            k + 1)

\* Lines 179-183: the metadata columns are set.
WithMetadata(df) ==
    Assign(Assign(Assign(Assign(Assign(df, S_source_file, EmptyValues),
                                S_date_processed, NowValues),
                         S_link_status, EmptyValues),
                  S_link_code, EmptyValues),
           S_link_message, EmptyValues)

\* Lines 155-185: standardize_columns(df).
standardize_columns(df) == WithMetadata(EnsureStandard(Renamed(df), 1))

\* The headers of the tables standardize_columns is called on.
H_Name == <<"N", "a", "m", "e">>
H_title == <<"t", "i", "t", "l", "e">>
H_URL == <<" ", "U", "R", "L">>
H_link == <<"l", "i", "n", "k">>
H_owner == <<"o", "w", "n", "e", "r">>
InputHeaders == {H_Name, H_title, H_URL, H_link, H_owner, S_link_status}

\* Tables of up to MaxCols columns with distinct headers, each column holding
\* its own values.
InputTables ==
    {[c \in 1..Len(hs) |-> Column(hs[c], hs[c])] :
        hs \in {s \in SeqsUpTo(InputHeaders, MaxCols) : NoRepeats(s)}}

Pending == <<"<pending>">>

\* Line 246: standardize_columns(df) is called on a table read from a file.
StandardizeCall ==
    /\ sout # Pending
    /\ sdf' \in InputTables
    /\ sout' = Pending
    /\ UNCHANGED <<crow, caccess, gvars>>

\* Line 185: the call returns df_copy.
StandardizeReturn ==
    /\ sout = Pending
    /\ sout' = standardize_columns(sdf)
    /\ UNCHANGED <<sdf, crow, caccess, gvars>>

NextStandardize ==
    \/ StandardizeCall /\ UNCHANGED <<bvars, pvars, evars, rvars>>
    \/ StandardizeReturn /\ UNCHANGED <<bvars, pvars, evars, rvars>>

InitStandardize ==
    InitValidator({DefaultMaxWorkers}) /\ InitProcessor /\ InitEnricher /\ InitExtra

SpecStandardize == InitStandardize /\ [][NextStandardize]_vars

\* --------------------------------------------------------------- SpecGui
\* The window of business_tools_app.py: its buttons start a thread per click.
\* A thread is its kind, where it stands, and the table object it works on.
Thread(k, at) == [kind |-> k, pc |-> at, obj |-> None]

\* Lines 298-307: BusinessToolsGUI.__init__: current_data is None, and
\* load_existing_data reads the master CSV when there is one.
InitGui ==
    /\ selected_files = FALSE
    /\ threads = <<>>
    /\ reading = None
    /\ csv_exists \in BOOLEAN
    /\ current_data = IF csv_exists THEN Some(0) ELSE None
    /\ n_tables = IF csv_exists THEN 1 ELSE 0

\* The main thread runs one handler at a time.
MainThreadFree == reading = None

\* Lines 449-463: select_files.
SelectFiles ==
    /\ MainThreadFree
    /\ ~selected_files
    /\ selected_files' = TRUE
    /\ UNCHANGED <<current_data, threads, reading, csv_exists, n_tables>>

\* Lines 476-508: process_files: with files selected, a thread is started.
ClickProcess ==
    /\ MainThreadFree
    /\ selected_files
    /\ Len(threads) < MaxThreads
    /\ threads' = Append(threads, Thread("process", "processing"))
    /\ UNCHANGED <<selected_files, current_data, reading, csv_exists, n_tables>>

\* Lines 629-663: revalidate_links: with data loaded, a thread is started.
ClickRevalidate ==
    /\ MainThreadFree
    /\ current_data # None
    /\ Len(threads) < MaxThreads
    /\ threads' = Append(threads, Thread("revalidate", "started"))
    /\ UNCHANGED <<selected_files, current_data, reading, csv_exists, n_tables>>

\* Lines 510-519: load_existing_data (the Refresh Data button): the master CSV
\* is read into a new table.
ClickRefresh ==
    /\ MainThreadFree
    /\ csv_exists
    /\ n_tables < MaxThreads + 2
    /\ current_data' = Some(n_tables)
    /\ n_tables' = n_tables + 1
    /\ UNCHANGED <<selected_files, threads, reading, csv_exists>>

\* Lines 582-617: apply_filter starts to iterate current_data.
BeginRead ==
    /\ MainThreadFree
    /\ current_data # None
    /\ reading' = current_data
    /\ UNCHANGED <<selected_files, current_data, threads, csv_exists, n_tables>>

\* apply_filter returns.
EndRead ==
    /\ reading # None
    /\ reading' = None
    /\ UNCHANGED <<selected_files, current_data, threads, csv_exists, n_tables>>

\* Lines 482-506: process_thread. processor.process_files builds a table of
\* its own (lines 237-278), writes the master CSV (line 284) and the report;
\* then load_existing_data reads the CSV into a new table.
ProcessStep(i) ==
    /\ threads[i].kind = "process"
    /\ \/ /\ threads[i].pc = "processing"
          /\ \E at \in {"saving", "failed"} : threads' = [threads EXCEPT ![i].pc = at]
          /\ UNCHANGED <<current_data, csv_exists, n_tables>>
       \/ /\ threads[i].pc = "saving"
          /\ threads' = [threads EXCEPT ![i].pc = "loading"]
          /\ csv_exists' = TRUE
          /\ UNCHANGED <<current_data, n_tables>>
       \/ /\ threads[i].pc = "loading"
          /\ n_tables < MaxThreads + 2
          /\ threads' = [threads EXCEPT ![i].pc = "done"]
          /\ current_data' = Some(n_tables)
          /\ n_tables' = n_tables + 1
          /\ UNCHANGED csv_exists
    /\ UNCHANGED <<selected_files, reading>>

\* Lines 635-661: revalidate_thread. validate_links_with_progress is called on
\* the table current_data names (line 640), runs the batch (line 225), writes
\* the results into that table row by row (lines 228-231) and returns it; the
\* master CSV is written (line 646) and the trees are filled again.
RevalidateStep(i) ==
    /\ threads[i].kind = "revalidate"
    /\ \/ /\ threads[i].pc = "started"
          /\ threads' = [threads EXCEPT ![i].pc = "validating", ![i].obj = current_data]
          /\ UNCHANGED <<current_data, csv_exists>>
       \/ /\ threads[i].pc = "validating"
          /\ threads' = [threads EXCEPT ![i].pc = "folding"]
          /\ UNCHANGED <<current_data, csv_exists>>
       \/ /\ threads[i].pc = "folding"
          /\ threads' = [threads EXCEPT ![i].pc = "saving"]
          /\ current_data' = threads[i].obj
          /\ UNCHANGED csv_exists
       \/ /\ threads[i].pc = "saving"
          /\ threads' = [threads EXCEPT ![i].pc = "refreshing"]
          /\ csv_exists' = TRUE
          /\ UNCHANGED current_data
       \/ /\ threads[i].pc = "refreshing"
          /\ threads' = [threads EXCEPT ![i].pc = "done"]
          /\ UNCHANGED <<current_data, csv_exists>>
    /\ UNCHANGED <<selected_files, reading, n_tables>>

GuiIdle == UNCHANGED <<bvars, pvars, evars, crow, caccess, sdf, sout, rvars>>

NextGui ==
    \/ SelectFiles /\ GuiIdle
    \/ ClickProcess /\ GuiIdle
    \/ ClickRevalidate /\ GuiIdle
    \/ ClickRefresh /\ GuiIdle
    \/ BeginRead /\ GuiIdle
    \/ EndRead /\ GuiIdle
    \/ \E i \in 1..Len(threads) : ProcessStep(i) /\ GuiIdle
    \/ \E i \in 1..Len(threads) : RevalidateStep(i) /\ GuiIdle

InitGuiApp ==
    /\ InitValidator({DefaultMaxWorkers}) /\ InitProcessor /\ InitEnricher
    /\ crow = NoRow /\ caccess = "" /\ sdf = <<>> /\ sout = <<>>
    /\ InitGui
    /\ InitCalls

SpecGui == InitGuiApp /\ [][NextGui]_vars

\* ------------------------------------------------------------------ Spec
\* One DataProcessor, its LinkValidator of the default width, and one
\* process_files call, with or without output files of an earlier run.
Init ==
    /\ InitValidator({DefaultMaxWorkers})
    /\ InitProcessorWith({NoFile, OldFile})
    /\ InitEnricher
    /\ InitExtra

Next ==
    \/ ProcessFilesCall /\ UNCHANGED <<bvars, evars, xvars, rvars>>
    \/ ProcessFile /\ UNCHANGED <<bvars, evars, xvars, rvars>>
    \/ Combine /\ UNCHANGED <<bvars, evars, xvars, rvars>>
    \/ Deduplicate /\ UNCHANGED <<bvars, evars, xvars, rvars>>
    \/ ValidateLinksCall /\ UNCHANGED <<evars, xvars, rvars>>
    \/ \E j \in Jobs : WorkerStart(j) /\ UNCHANGED <<pvars, evars, xvars, rvars>>
    \/ \E j \in Jobs, o \in BatchOutcomes : HeadReturns(j, o) /\ UNCHANGED <<pvars, evars, xvars, rvars>>
    \/ \E j \in Jobs, o \in BatchOutcomes : GetReturns(j, o) /\ UNCHANGED <<pvars, evars, xvars, rvars>>
    \/ \E j \in Jobs : Collect(j) /\ UNCHANGED <<pvars, evars, xvars, rvars>>
    \/ BatchReturn /\ UNCHANGED <<pvars, evars, xvars, rvars>>
    \/ FoldResults /\ UNCHANGED <<bvars, evars, xvars, rvars>>
    \/ SaveMaster /\ UNCHANGED <<bvars, evars, xvars, rvars>>
    \/ SaveReport /\ UNCHANGED <<bvars, evars, xvars, rvars>>
    \/ Complete /\ UNCHANGED <<bvars, evars, xvars, rvars>>

Spec == Init /\ [][Next]_vars

\* ------------------------------------------------------------- SpecBatch
\* One LinkValidator of any pool width, and validate_urls_batch calls on it.
BatchURLs == {EmptyStr, U_bare, U_https}

\* validate_urls_batch(urls, progress_callback) called on an idle validator.
BatchCall ==
    /\ bpc = "idle"
    /\ \E us \in SeqsUpTo(BatchURLs, MaxUrls), cb \in BOOLEAN : SubmitAll(us, cb)

InitBatch == InitValidator(1..MaxWorkers) /\ InitProcessor /\ InitEnricher /\ InitExtra

NextBatch ==
    \/ BatchCall /\ UNCHANGED <<pvars, evars, xvars, rvars>>
    \/ \E j \in Jobs : WorkerStart(j) /\ UNCHANGED <<pvars, evars, xvars, rvars>>
    \/ \E j \in Jobs, o \in BatchOutcomes : HeadReturns(j, o) /\ UNCHANGED <<pvars, evars, xvars, rvars>>
    \/ \E j \in Jobs, o \in BatchOutcomes : GetReturns(j, o) /\ UNCHANGED <<pvars, evars, xvars, rvars>>
    \/ \E j \in Jobs : Collect(j) /\ UNCHANGED <<pvars, evars, xvars, rvars>>
    \/ BatchReturn /\ UNCHANGED <<pvars, evars, xvars, rvars>>

SpecBatch == InitBatch /\ [][NextBatch]_vars

\* The same calls when nothing stops for ever: a free worker of the pool takes
\* the next queued future, every request ends (in a response, a failure, or the
\* timeout of 10 seconds that lines 58 and 60 set), and the thread that called
\* validate_urls_batch keeps running its as_completed loop.
BatchFairness ==
    /\ \A j \in 1..MaxUrls :
          /\ WF_vars(j \in Jobs /\ WorkerStart(j) /\ UNCHANGED <<pvars, evars, xvars, rvars>>)
          /\ WF_vars(j \in Jobs /\ (\E o \in BatchOutcomes : HeadReturns(j, o))
                        /\ UNCHANGED <<pvars, evars, xvars, rvars>>)
          /\ WF_vars(j \in Jobs /\ (\E o \in BatchOutcomes : GetReturns(j, o))
                        /\ UNCHANGED <<pvars, evars, xvars, rvars>>)
          /\ WF_vars(j \in Jobs /\ Collect(j) /\ UNCHANGED <<pvars, evars, xvars, rvars>>)
    /\ WF_vars(BatchReturn /\ UNCHANGED <<pvars, evars, xvars, rvars>>)

SpecBatchLive == InitBatch /\ [][NextBatch]_vars /\ BatchFairness

\* --------------------------------------------------------------- SpecUrl
\* validate_url on one input, under every outcome of its requests: a batch of
\* one URL.
UrlCall ==
    /\ bpc = "idle"
    /\ \E u \in InputURLs : SubmitAll(<<u>>, TRUE)

NextUrl ==
    \/ UrlCall /\ UNCHANGED <<pvars, evars, xvars, rvars>>
    \/ \E j \in Jobs : WorkerStart(j) /\ UNCHANGED <<pvars, evars, xvars, rvars>>
    \/ \E j \in Jobs, o \in Outcomes : HeadReturns(j, o) /\ UNCHANGED <<pvars, evars, xvars, rvars>>
    \/ \E j \in Jobs, o \in Outcomes : GetReturns(j, o) /\ UNCHANGED <<pvars, evars, xvars, rvars>>
    \/ \E j \in Jobs : Collect(j) /\ UNCHANGED <<pvars, evars, xvars, rvars>>
    \/ BatchReturn /\ UNCHANGED <<pvars, evars, xvars, rvars>>

InitUrl == InitValidator({1}) /\ InitProcessor /\ InitEnricher /\ InitExtra

SpecUrl == InitUrl /\ [][NextUrl]_vars

\* ------------------------------------------------------------------ claims
Finished(j) == phase[j] \in {"done", "collected"}

\* The result r answers the input u: an empty input is echoed as given, any
\* other is reported stripped (invalid) or as the URL that was requested.
ResultIsFor(u, r) ==
    IF IsEmptyInput(u) THEN r.url = u /\ r.status = "empty"
    ELSE IF NormalizeUrl(u) = None THEN r.url = strip(u) /\ r.status = "invalid"
    ELSE r.url = NormalizeUrl(u)[1] /\ r.status \in Statuses \ {"empty", "invalid"}

\* C2: when validate_urls_batch has returned, the results list holds exactly
\* len(urls) results, and it is a permutation of the per-input results: every
\* input position was yielded exactly once, and the k-th result is the one
\* validate_url returned for the position yielded k-th, which answers that
\* position's input.
C2_OneResultPerInput ==
    bpc = "returned" =>
        /\ Len(results) = Len(urls)
        /\ Len(order) = Len(urls)
        /\ NoRepeats(order)
        /\ {order[k] : k \in 1..Len(order)} = Jobs
        /\ \A k \in 1..Len(order) :
              /\ results[k] = jobres[order[k]]
              /\ ResultIsFor(urls[order[k]], results[k])

\* C2 witness: a returned batch of three URLs, one repeated and one empty,
\* collected out of submission order.
C2_Witness ==
    /\ bpc = "returned"
    /\ Len(urls) = 3
    /\ urls[1] = urls[3]
    /\ urls[2] = EmptyStr
    /\ urls[1] = U_bare
    /\ order = <<3, 2, 1>>

\* C3: validate_url never raises and returns one result whose status is one of
\* the six: for every input and every outcome of HEAD and of GET, no future ends
\* raised, the batch of one never re-raises, every finished call has a status of
\* the vocabulary, and the returned list holds exactly that one result.
C3_TotalSixStatuses ==
    /\ bpc # "raised"
    /\ \A j \in Jobs :
          /\ phase[j] # "raised"
          /\ Finished(j) => jobres[j].status \in Statuses
    /\ bpc = "returned" => Len(results) = 1 /\ results[1].status \in Statuses

\* C3 witness: a call whose GET retry raised an exception that is none of
\* requests' has returned, with status error.
C3_Witness ==
    /\ bpc = "returned"
    /\ Len(reqs[1]) = 2
    /\ reqs[1][2].outcome.kind = "Exception"
    /\ results[1].status = "error"

\* C4: at every moment the number of URLs with a request outstanding is at most
\* max_workers.
C4_AtMostMaxWorkersInProgress == Cardinality(InProgress) <= max_workers

\* C4 witness: more URLs than workers; every worker is busy and a URL waits.
C4_Witness ==
    /\ Len(urls) > max_workers
    /\ Cardinality(InProgress) = max_workers
    /\ max_workers = 2
    /\ \E j \in Jobs : phase[j] = "queued"

\* C5: with a progress callback, the k-th invocation carries completed = k,
\* total = N and the k-th element of the results list, which is the result of a
\* validation that has finished and been yielded; no future is reported twice;
\* there are as many invocations as results at every moment, and N when the
\* batch has returned.
C5_CallbackPerCompletion ==
    has_cb =>
        /\ Len(calls) = Len(results)
        /\ Len(calls) = Len(order)
        /\ NoRepeats(order)
        /\ \A k \in 1..Len(calls) :
              /\ calls[k] = <<k, Len(urls), results[k]>>
              /\ phase[order[k]] = "collected"
              /\ calls[k][3] = jobres[order[k]]
        /\ bpc = "returned" => Len(calls) = Len(urls)

\* C5 witness: a returned batch of three URLs with a callback, the last
\* submitted URL reported first.
C5_Witness ==
    /\ has_cb
    /\ bpc = "returned"
    /\ Len(calls) = 3
    /\ order[1] = 3
    /\ calls[3][1] = 3

\* C10: for an input that is neither empty nor invalid, the first request is a
\* HEAD to the normalized URL; a second request exists exactly when that HEAD
\* ended in a 405 response, it is a GET to the same URL, and there is never a
\* third; once the call has finished after a GET that ended in a response, the
\* result carries that response's code.
C10_HeadThenGetOn405 ==
    \A j \in Jobs :
        (phase[j] # "queued" /\ ~IsEmptyInput(urls[j]) /\ NormalizeUrl(urls[j]) # None) =>
            /\ Len(reqs[j]) \in {1, 2}
            /\ reqs[j][1].method = "HEAD"
            /\ reqs[j][1].url = NormalizeUrl(urls[j])[1]
            /\ Len(reqs[j]) = 2 <=>
                  (reqs[j][1].outcome.kind = "response" /\ reqs[j][1].outcome.code = 405)
            /\ Len(reqs[j]) = 2 =>
                  /\ reqs[j][2].method = "GET"
                  /\ reqs[j][2].url = reqs[j][1].url
            /\ phase[j] = "head" <=> reqs[j][Len(reqs[j])] = Request("HEAD", reqs[j][1].url)
            /\ (Finished(j) /\ Len(reqs[j]) = 2 /\ reqs[j][2].outcome.kind = "response") =>
                  jobres[j].code = Some(reqs[j][2].outcome.code)
            /\ (Finished(j) /\ Len(reqs[j]) = 1 /\ reqs[j][1].outcome.kind = "response") =>
                  jobres[j].code = Some(reqs[j][1].outcome.code)

\* C10 witness: HEAD answered 405, the GET answered 200, and the call returned
\* valid with code 200.
C10_Witness ==
    /\ Len(urls) = 1
    /\ phase[1] = "collected"
    /\ Len(reqs[1]) = 2
    /\ reqs[1][1].outcome = Response(405)
    /\ reqs[1][2].outcome = Response(200)
    /\ jobres[1] = Result(U_https, "valid", Some(200), "OK")

\* The table process_files merged: the tables read, concatenated in file order.
Merged == Concat(all_data)

\* The table stands deduplicated and no result was written into it yet.
Deduplicated == pc \in {"deduped", "validating"}

LinkFieldsAre(row, r) ==
    /\ row.link_status = r.status
    /\ row.link_code = LinkCode(r.code)
    /\ row.link_message = r.message

\* C1: after validate_links_with_progress, every row of the table carries the
\* status, code and message of the result validate_url returned for that row's
\* own URL (the future submitted for the row's position in the url column),
\* whatever the order in which the validations completed.
C1_ResultsFoldedByUrl ==
    pc = "validated" =>
        \A p \in 1..Len(master_df) :
            /\ p <= Len(urls)
            /\ master_df[p].url = urls[p]
            /\ LinkFieldsAre(master_df[p], jobres[p])

\* C1, where it fails with every label in place: a table of two rows labelled
\* 0 and 1 whose validations completed in reverse order.
C1_SwappedByCompletionOrder ==
    /\ pc = "validated"
    /\ Len(master_df) = 2
    /\ master_df[1].label = 0 /\ master_df[2].label = 1
    /\ order = <<2, 1>>
    /\ LinkFieldsAre(master_df[1], jobres[2])
    /\ ~LinkFieldsAre(master_df[1], jobres[1])

\* The comparison key the claim names: https:// put before a URL with no scheme.
SchemeNormalized(u) == IF isna(u) \/ HasScheme(u) THEN u ELSE HTTPS_PREFIX \o u

\* C6: after deduplication no two rows of the consolidated table share a
\* scheme-normalized URL, and the table has at most as many rows as the input
\* tables together.
C6_UniqueNormalizedUrl ==
    Deduplicated =>
        /\ \A a, b \in 1..Len(master_df) :
              SchemeNormalized(master_df[a].url) = SchemeNormalized(master_df[b].url) => a = b
        /\ Len(master_df) <= RowsRead

\* C6, the case that fails: the rows a.t and https://a.t both survive.
C6_BothFormsSurvive ==
    /\ Deduplicated
    /\ \E a, b \in 1..Len(master_df) :
          master_df[a].url = U_bare /\ master_df[b].url = U_https

\* The row of the merged table labelled l.
MergedRow(l) == Merged[l + 1]

\* C7: the deduplicated table is the merged input with, for every URL, all rows
\* but the earliest (file order, then row order) removed: each surviving row is
\* a row of the merged input, unchanged; a merged row survives exactly when no
\* earlier merged row has its URL; and the survivors stand in the merged order.
C7_FirstOccurrenceKept ==
    Deduplicated =>
        /\ \A k \in 1..Len(master_df) :
              /\ master_df[k].label \in 0..(Len(Merged) - 1)
              /\ master_df[k] = MergedRow(master_df[k].label)
        /\ \A a, b \in 1..Len(master_df) : a < b => master_df[a].label < master_df[b].label
        /\ \A m \in 1..Len(Merged) :
              HasLabel(master_df, m - 1) <=> ~\E e \in 1..(m - 1) : Merged[e].url = Merged[m].url

\* C7 witness: a.t stands in the first file (after another row) and in the
\* second; the table keeps two rows in merged order, a.t as the first file's.
C7_Witness ==
    /\ Deduplicated
    /\ Len(all_data) = 2
    /\ Len(Merged) = 3
    /\ Merged[2].url = U_bare /\ Merged[3].url = U_bare
    /\ Merged[2].source_file = FileName(1) /\ Merged[3].source_file = FileName(2)
    /\ Len(master_df) = 2
    /\ master_df[2].url = U_bare
    /\ master_df[2].source_file = FileName(1)

EmptyUrl(u) == u = EmptyStr \/ isna(u)

\* C8: every merged row whose URL is empty or missing is in the deduplicated
\* table.
C8_EmptyUrlRowsKept ==
    Deduplicated =>
        \A m \in 1..Len(Merged) : EmptyUrl(Merged[m].url) => HasLabel(master_df, m - 1)

\* C8, the case that fails: two rows with a missing URL were merged and one is left.
C8_EmptyUrlRowDropped ==
    /\ Deduplicated
    /\ Len(Merged) = 2
    /\ Merged[1].url = NaN /\ Merged[2].url = NaN
    /\ Len(master_df) = 1

\* The URL the scan finds in the cell it stands at, as a sequence of none or one.
UrlAtCursor ==
    IF epc = "scan" /\ ecol <= Len(edf.cols) /\ eidx <= Len(edf.rows)
       /\ edf.rows[eidx][ecol] # NaNCell
       /\ detect_urls_in_text(edf.rows[eidx][ecol]) # <<>>
    THEN <<detect_urls_in_text(edf.rows[eidx][ecol])[1]>>
    ELSE <<>>

\* No URL has had more than one page fetch, and a fetched URL is in the cache.
C9_FetchedAtMostOnce ==
    \A u \in DOMAIN fetches : fetches[u] <= 1 /\ (fetches[u] = 1 => u \in DOMAIN url_cache)

\* A step keeps every cache entry as it is.
C9_EntriesKept ==
    \A u \in DOMAIN url_cache : u \in DOMAIN url_cache' /\ url_cache'[u] = url_cache[u]

\* A step that scans a cell whose URL is cached makes no request and no delay,
\* and gives the cell the cached description.
C9_HitMakesNoRequest ==
    (UrlAtCursor # <<>> /\ UrlAtCursor[1] \in DOMAIN url_cache /\ eidx' = eidx + 1) =>
        /\ net_log' = net_log
        /\ fetches' = fetches
        /\ descriptions' = Append(descriptions, url_cache[UrlAtCursor[1]])

\* C9: over any sequence of process_urls_in_dataframe calls on one
\* DataProcessor, each URL is fetched at most once whatever its fetch ended in:
\* a cache entry once written is never changed or removed, and a later
\* occurrence of the URL gets the cached description without a request.
C9_CachedUrlFetchedOnce ==
    /\ []C9_FetchedAtMostOnce
    /\ [][C9_EntriesKept /\ C9_HitMakesNoRequest]_vars

\* C9 witness: the same URL in two rows of a column; its one fetch timed out and
\* the second row got the cached description; the call made a single request.
C9_Witness ==
    /\ epc = "scan"
    /\ ecol = 1
    /\ eidx = 3
    /\ edf.rows[1][1] = <<E_http>>
    /\ edf.rows[2][1] = <<E_http>>
    /\ descriptions = <<Text("Request timeout"), Text("Request timeout")>>
    /\ net_log = <<<<"GET", E_http, "Timeout">>, <<"sleep", E_http>>>>
    /\ fetches[E_http] = 1

\* The outcome of the last request of a finished validate_url call.
LastOutcome(j) == reqs[j][Len(reqs[j])].outcome

\* The input with https:// put before it when it has no scheme.
WithHttps(u) == IF HasScheme(strip(u)) THEN strip(u) ELSE HTTPS_PREFIX \o strip(u)

\* C11: when the final response of a validation has status code c, the result
\* is valid with code c if c < 400 and error with code c otherwise; the request
\* goes to, and the result is reported under, the input with https:// put
\* before it when it has no scheme.
C11_StatusFromFinalResponse ==
    \A j \in Jobs :
        (Finished(j) /\ reqs[j] # <<>> /\ LastOutcome(j).kind = "response") =>
            LET c == LastOutcome(j).code IN
            /\ jobres[j].code = <<c>>
            /\ c < 400 => jobres[j].status = "valid"
            /\ c >= 400 => jobres[j].status = "error"
            /\ jobres[j].url = WithHttps(urls[j])
            /\ \A k \in 1..Len(reqs[j]) : reqs[j][k].url = WithHttps(urls[j])

\* C11 witness: a.t was requested as https://a.t, HEAD answered 404, and the
\* result is error with code 404 under https://a.t.
C11_Witness ==
    /\ Len(urls) = 1
    /\ urls[1] = U_bare
    /\ phase[1] = "collected"
    /\ reqs[1] = <<Ended(Request("HEAD", U_https), Response(404))>>
    /\ jobres[1].url = U_https
    /\ jobres[1].status = "error"
    /\ jobres[1].code = <<404>>

\* C12: a timeout during HEAD or GET gives status timeout, a connection failure
\* connection_error and any other exception error; the result then has no
\* numeric code and a non-empty message, and nothing is raised to the caller of
\* validate_url or of validate_urls_batch.
C12_ExceptionsBecomeResults ==
    /\ bpc # "raised"
    /\ \A j \in Jobs :
          /\ phase[j] # "raised"
          /\ (Finished(j) /\ reqs[j] # <<>> /\ LastOutcome(j).kind # "response") =>
                /\ LastOutcome(j).kind = "Timeout" => jobres[j].status = "timeout"
                /\ LastOutcome(j).kind = "ConnectionError" =>
                      jobres[j].status = "connection_error"
                /\ LastOutcome(j).kind \notin {"Timeout", "ConnectionError"} =>
                      jobres[j].status = "error"
                /\ jobres[j].code = None
                /\ jobres[j].message # ""

\* C12, where it fails: HEAD raised a RequestException whose text is empty, and
\* the result's message is empty.
C12_EmptyMessage ==
    /\ Len(urls) = 1
    /\ phase[1] = "collected"
    /\ Len(reqs[1]) = 1
    /\ reqs[1][1].outcome = Raised("RequestException", "")
    /\ jobres[1].status = "error"
    /\ jobres[1].message = ""

\* C13: an input that is missing, empty or whitespace-only gets status empty and
\* an input with no http:// or https:// scheme and no dot gets status invalid,
\* both without any request; for every other input the call sends a request.
C13_NoRequestForEmptyOrInvalid ==
    \A j \in Jobs :
        phase[j] # "queued" =>
            LET u == urls[j]
                blank == isna(u) \/ \A i \in 1..Len(u) : u[i] = " "
                malformed == ~blank /\ ~HasScheme(strip(u)) /\ ~contains(u, ".")
            IN /\ blank => reqs[j] = <<>> /\ jobres[j].status = "empty"
               /\ malformed => reqs[j] = <<>> /\ jobres[j].status = "invalid"
               /\ (~blank /\ ~malformed) => Len(reqs[j]) >= 1
               /\ (Finished(j) /\ jobres[j].status \in {"empty", "invalid"}) => reqs[j] = <<>>

\* C13 witness: a whitespace-only input returned empty with no request sent.
C13_Witness ==
    /\ Len(urls) = 1
    /\ urls[1] = U_blank
    /\ phase[1] = "collected"
    /\ reqs[1] = <<>>
    /\ jobres[1].status = "empty"

\* The same for the input ab, with no scheme and no dot: invalid, no request.
C13_WitnessInvalid ==
    /\ Len(urls) = 1
    /\ urls[1] = U_nodot
    /\ phase[1] = "collected"
    /\ reqs[1] = <<>>
    /\ jobres[1].status = "invalid"

\* C15: every URL detected without a scheme that the scan has handled was
\* fetched (under https://), and was not answered with the format rejection
\* that precedes any request.
C15_SchemelessUrlFetched ==
    \A u \in DOMAIN url_cache :
        ~HasScheme(u) => fetches[u] >= 1 /\ url_cache[u] # Text("Invalid URL format")

\* C15, where it fails: www.a.io was detected in a cell and got the description
\* Invalid URL format without any request; only the delay followed.
C15_RejectedBeforeRequest ==
    /\ epc = "scan"
    /\ Len(edf.rows) >= 1
    /\ edf.rows[1][1] = <<E_www>>
    /\ eidx = 2
    /\ DOMAIN url_cache = {E_www}
    /\ url_cache[E_www] = Text("Invalid URL format")
    /\ fetches[E_www] = 0
    /\ net_log = <<<<"sleep", E_www>>>>

\* In the log of the call under way, every fetch is followed at once by the
\* delay for its URL, and no URL has two delays.
C16_DelayFollowsFetch ==
    /\ \A k \in 1..Len(net_log) :
          net_log[k][1] = "GET" =>
              /\ k < Len(net_log)
              /\ net_log[k + 1] = <<"sleep", net_log[k][2]>>
    /\ \A k, l \in 1..Len(net_log) :
          (net_log[k][1] = "sleep" /\ net_log[k] = net_log[l]) => k = l

\* A scan step on a cached URL adds nothing to the log; a scan step that
\* fetches adds the fetch and then one delay.
C16_DelayOnlyWhenFresh ==
    (UrlAtCursor # <<>> /\ eidx' = eidx + 1) =>
        IF UrlAtCursor[1] \in DOMAIN url_cache
        THEN net_log' = net_log
        ELSE Len(net_log') > Len(net_log)
             /\ net_log'[Len(net_log')] = <<"sleep", UrlAtCursor[1]>>
             /\ Len(net_log') <= Len(net_log) + 2

\* C16: during process_urls_in_dataframe the delay is applied exactly once
\* after each fresh page fetch, before the next cell is handled, and never on a
\* cache hit; any two fetches of a call have a delay between them.
C16_DelayAfterEachFetch ==
    /\ []C16_DelayFollowsFetch
    /\ [][C16_DelayOnlyWhenFresh]_vars

\* C16 witness: two URLs fetched in one call, each fetch followed by its delay.
C16_Witness ==
    /\ epc = "scan"
    /\ ecol = 1
    /\ eidx = 3
    /\ net_log = <<<<"GET", E_https, "page">>, <<"sleep", E_https>>,
                   <<"GET", E_http, "Timeout">>, <<"sleep", E_http>>>>

\* The columns of row r of the input in which a URL is found, and the URL the
\* fill is made for: the first URL of the first of them.
UrlColumns(r) ==
    {c \in 1..Len(edf.cols) :
        edf.rows[r][c] # NaNCell /\ detect_urls_in_text(edf.rows[r][c]) # <<>>}

FirstUrl(r) ==
    LET c == CHOOSE c \in UrlColumns(r) : \A d \in UrlColumns(r) : c <= d
    IN detect_urls_in_text(edf.rows[r][c])[1]

ColumnNamed(n) ==
    IF \E c \in 1..Len(edf.cols) : edf.cols[c] = n
    THEN CHOOSE c \in 1..Len(edf.cols) : edf.cols[c] = n
    ELSE 0

\* A cell that is missing or the empty text.
MissingOrEmpty(v) == v = NaNCell \/ v = EmptyCell

\* A cell that is missing, the empty text, or the text nan or none.
MissingOrEmptyLike(v) == MissingOrEmpty(v) \/ v = Text("nan") \/ v = Text("none")

\* The fill rule, for a reading Empty of "empty": when the call is about to
\* return a table that has a Description column, a row without a URL and a row
\* whose description is not empty keep their description; an empty one is the
\* row's synopsis when there is a Synopsis column and the synopsis is not
\* empty, and the description fetched for the row's URL otherwise.
FillRule(Empty(_)) ==
    (Returning /\ ColumnNamed("Description") # 0) =>
        LET dc == ColumnNamed("Description")
            sc == ColumnNamed("Synopsis")
        IN \A r \in 1..Len(edf.rows) :
              LET orig == edf.rows[r][dc]
                  final == df_processed.rows[r][dc]
              IN IF UrlColumns(r) = {} \/ ~Empty(orig) THEN final = orig
                 ELSE IF sc # 0 /\ ~Empty(edf.rows[r][sc]) THEN final = edf.rows[r][sc]
                 ELSE final = url_cache[FirstUrl(r)]

\* C17 as stated: empty means missing or the empty text, so that a description
\* cell holding any text is left unchanged and a synopsis holding any text is
\* preferred over the fetched description.
C17_FillOnlyEmptyDescription == FillRule(MissingOrEmpty)

\* C17 as amended: a description or synopsis cell also counts as empty when its
\* text, trimmed and lower-cased, is nan or none.
C17_FillEmptyLikeDescription == FillRule(MissingOrEmptyLike)

\* C17 witness: a table with Description and Synopsis about to be returned; the
\* first row's missing description became its synopsis, the second row's empty
\* description became the fetched title.
C17_Witness ==
    /\ Returning
    /\ edf.cols = <<"Link", "Description", "Synopsis">>
    /\ edf.rows = <<<<<<E_http>>, NaNCell, Text("synopsis")>>,
                    <<<<E_http>>, EmptyCell, NaNCell>>>>
    /\ df_processed.rows[1][2] = Text("synopsis")
    /\ df_processed.rows[2][2] = Text("Docs")

\* The diagnostic string the claim names for a failed fetch.
Diagnostic(kind) ==
    CASE kind = "Timeout" -> Text("Request timeout")
      [] kind = "ConnectionError" -> Text("Connection failed")
      [] kind = "HTTPError" -> Text("HTTP error: 404")
      [] OTHER -> Text("Error: boom")

\* C18: a page fetch that ends in a timeout, a connection failure, an HTTP
\* error status (or any other exception) gives the URL a diagnostic string as
\* its description; the scan is never ended by it and goes on to the next
\* cell, so that every row scanned so far has its entry in the column's
\* descriptions; the table the call returns has the rows of its input, their
\* input cells as they were, and the descriptions as a new column.
C18_FetchFailureIsData ==
    /\ ~Aborted
    /\ \A k \in 1..Len(net_log) :
          (net_log[k][1] = "GET" /\ net_log[k][3] # "page") =>
              /\ net_log[k][2] \in DOMAIN url_cache
              /\ url_cache[net_log[k][2]] = Diagnostic(net_log[k][3])
    /\ (epc = "scan" /\ ecol <= Len(edf.cols)) => Len(descriptions) = eidx - 1
    /\ epc = "scan" => Len(df_processed.rows) = Len(edf.rows)
    /\ Returning =>
          /\ Len(ReturnValue.rows) = Len(edf.rows)
          /\ \A r \in 1..Len(edf.rows) :
                /\ ReturnValue.rows[r][1] = edf.rows[r][1]
                /\ UrlColumns(r) # {} =>
                      /\ Len(ReturnValue.rows[r]) = 2
                      /\ ReturnValue.rows[r][2] = url_cache[FirstUrl(r)]

\* C18 witness: the fetch for the first row timed out and the one for the
\* second row ended in an error status; both rows are in the table about to
\* be returned, with the diagnostic strings as their descriptions.
C18_Witness ==
    /\ Returning
    /\ edf.rows = <<<<<<E_https>>>>, <<<<E_http>>>>>>
    /\ net_log = <<<<"GET", E_https, "Timeout">>, <<"sleep", E_https>>,
                   <<"GET", E_http, "HTTPError">>, <<"sleep", E_http>>>>
    /\ df_processed.rows = <<<<<<E_https>>, Text("Request timeout")>>,
                             <<<<E_http>>, Text("HTTP error: 404")>>>>

endswith(s, p) == Len(s) >= Len(p) /\ SubSeq(s, Len(s) - Len(p) + 1, Len(s)) = p

\* The host of a URL: what follows the scheme, up to the first slash.
HostOf(u) ==
    LET rest == IF startswith(u, HTTPS_PREFIX) THEN SubSeq(u, Len(HTTPS_PREFIX) + 1, Len(u))
                ELSE IF startswith(u, HTTP_PREFIX) THEN SubSeq(u, Len(HTTP_PREFIX) + 1, Len(u))
                ELSE u
        slashes == {i \in 1..Len(rest) : rest[i] = "/"}
    IN IF slashes = {} THEN rest
       ELSE SubSeq(rest, 1, (CHOOSE i \in slashes : \A k \in slashes : i <= k) - 1)

\* The URL, or its host, ends in one of the public top-level domains.
EndsInPublicTld(u) ==
    \E i \in 1..Len(public_domains) :
        endswith(u, public_domains[i]) \/ endswith(HostOf(u), public_domains[i])

KeywordIn(kws, row) ==
    \E i \in 1..Len(kws) :
        \/ occurs(kws[i], lower(str(row.url)))
        \/ occurs(kws[i], lower(str(row.description)))
        \/ occurs(kws[i], lower(str(row.name)))

\* C19: classify_tool_access returns Internal if an internal keyword occurs in
\* the URL, description or name; otherwise Public if a public keyword occurs in
\* one of them; otherwise Public if the URL ends in a public top-level domain;
\* otherwise Unknown; nothing else of the row has a say.
C19_AccessFromKeywordsThenTld ==
    caccess \notin {"", "called"} =>
        caccess = IF KeywordIn(internal_keywords, crow) THEN "Internal"
                  ELSE IF KeywordIn(public_keywords, crow) THEN "Public"
                  ELSE IF EndsInPublicTld(lower(str(crow.url))) THEN "Public"
                  ELSE "Unknown"

\* C19, where it fails: https://a.net.io, with no keyword in any field, is
\* tagged Public although its top-level domain is io.
C19_PublicByTldInsideUrl ==
    /\ crow.url = C_net_io
    /\ crow.description = NaN
    /\ crow.name = <<"T", "o", "o", "l">>
    /\ caccess = "Public"

\* The target columns in their fixed order: the standard columns, then the
\* metadata columns.
TargetColumns ==
    [k \in 1..Len(column_mappings) |-> column_mappings[k].standard] \o metadata_columns

\* The input column that supplies standard column k: the one whose header,
\* case and surrounding blanks aside, is the earliest synonym of k's list that
\* any header matches; none when no header matches.
RECURSIVE EarliestSynonym(_, _)
EarliestSynonym(variations, df) ==
    IF variations = <<>> THEN EmptyValues
    ELSE IF \E c \in 1..Len(df) : strip(lower(df[c].header)) = Head(variations)
    THEN df[CHOOSE c \in 1..Len(df) :
                /\ strip(lower(df[c].header)) = Head(variations)
                /\ \A d \in 1..(c - 1) : strip(lower(df[d].header)) # Head(variations)].values
    ELSE EarliestSynonym(Tail(variations), df)

\* C20: the table standardize_columns returns has exactly the target columns
\* in the fixed order, whatever the order of the input's columns; each standard
\* column holds the values of the input column matching the earliest synonym
\* of its list, or is empty when none matches; no other input column is in it.
C20_ExactlyTargetColumns ==
    (sout # <<>> /\ sout # Pending) =>
        /\ Headers(sout) = TargetColumns
        /\ \A k \in 1..Len(column_mappings) :
              sout[k].values = EarliestSynonym(column_mappings[k].variations, sdf)

\* C20, where it fails: the input columns " URL", Name, owner come out as url,
\* name, owner in the input's order, before the standard columns that were added.
C20_InputOrderAndExtraColumnKept ==
    /\ Headers(sdf) = <<H_URL, H_Name, H_owner>>
    /\ sout # Pending
    /\ Len(sout) > 3
    /\ sout[1] = Column(column_mappings[3].standard, H_URL)
    /\ sout[2] = Column(column_mappings[1].standard, H_Name)
    /\ sout[3] = Column(H_owner, H_owner)

\* The threads that are writing the master CSV, and those that are writing
\* validation results into table t.
Saving == {i \in 1..Len(threads) : threads[i].pc = "saving"}
Folding(t) == {i \in 1..Len(threads) : threads[i].pc = "folding" /\ threads[i].obj = t}

\* C14: at no time are two threads writing the master CSV, or writing into the
\* same table, and no handler reads a table while a thread writes into it.
C14_OneWriterAtATime ==
    /\ Cardinality(Saving) <= 1
    /\ \A i \in 1..Len(threads) :
          threads[i].pc = "folding" =>
              /\ Cardinality(Folding(threads[i].obj)) = 1
              /\ reading # threads[i].obj

\* C14, where it fails: Re-validate All Links was clicked twice, and both
\* threads are writing their results into the one table current_data names.
C14_TwoRevalidationsFoldOneTable ==
    /\ Len(threads) = 2
    /\ threads[1].kind = "revalidate" /\ threads[2].kind = "revalidate"
    /\ threads[1].pc = "folding" /\ threads[2].pc = "folding"
    /\ threads[1].obj = current_data
    /\ threads[2].obj = current_data

\* The same for the file: a processing run and a re-validation run are both
\* writing the master CSV.
C14_TwoRunsWriteTheCsv ==
    /\ Len(threads) = 2
    /\ threads[1].kind = "process" /\ threads[2].kind = "revalidate"
    /\ threads[1].pc = "saving" /\ threads[2].pc = "saving"

\* ------------------------------------------ re-ingesting the master CSV
\* What pandas holds in column h of a row: its value, whether that is a missing
\* value, and whether it is the empty string. The columns a row of the model
\* does not carry have no value here.
CellOf(row, h) ==
    IF h = column_mappings[1].standard
    THEN [v |-> row.name, na |-> row.name = NaN, empty |-> row.name = EmptyStr]
    ELSE IF h = column_mappings[3].standard
    THEN [v |-> row.url, na |-> row.url = NaN, empty |-> row.url = EmptyStr]
    ELSE IF h = S_source_file
    THEN [v |-> row.source_file, na |-> row.source_file = NaN, empty |-> FALSE]
    ELSE IF h = S_link_status
    THEN [v |-> row.link_status, na |-> FALSE, empty |-> row.link_status = ""]
    ELSE IF h = S_link_code
    THEN [v |-> row.link_code, na |-> FALSE, empty |-> row.link_code = EmptyStr]
    ELSE IF h = S_link_message
    THEN [v |-> row.link_message, na |-> FALSE, empty |-> row.link_message = ""]
    ELSE [v |-> "", na |-> TRUE, empty |-> FALSE]

Missing == [na |-> TRUE]

\* A field as it stands in a table.
InTable(cell) == IF cell.na THEN Missing ELSE [text |-> cell.v]

\* Line 284 and line 143: a field written by to_csv and read by read_csv. A
\* missing value and the empty string are both written as an empty field, and
\* read_csv reads an empty field as a missing value.
ReadBack(cell) == IF cell.na \/ cell.empty THEN Missing ELSE [text |-> cell.v]

\* Line 284: to_csv(index=False) writes the header from the columns of the
\* table, which are those standardize_columns gave it at line 246.
CsvHeader == Headers(standardize_columns(<<>>))

\* Lines 142-143: read_file on a .csv file: the columns of the file, each with
\* its header and, as its values, its header and its fields.
read_file(csv) ==
    [c \in 1..Len(CsvHeader) |->
        Column(CsvHeader[c],
               <<CsvHeader[c], [k \in 1..Len(csv) |-> ReadBack(CellOf(csv[k], CsvHeader[c]))]>>)]

\* Lines 245-246: the master CSV a run wrote is read and standardized again.
Reingest ==
    /\ pc = "done"
    /\ sout = <<>>
    /\ sdf' = read_file(master_csv[1])
    /\ sout' = standardize_columns(read_file(master_csv[1]))
    /\ UNCHANGED <<crow, caccess, gvars>>

NextRoundTrip ==
    \/ Next
    \/ Reingest /\ UNCHANGED <<bvars, pvars, evars, rvars>>

SpecRoundTrip == Init /\ [][NextRoundTrip]_vars

\* C21: the table that read_file and standardize_columns make of the master
\* CSV equals the exported table field for field: it has the exported columns,
\* and every field of every column, source_file, date_processed, link_status,
\* link_code and link_message included, is the exported one.
C21_ReingestedEqualsExported ==
    (pc = "done" /\ sout # <<>>) =>
        /\ Headers(sout) = CsvHeader
        /\ \A c \in 1..Len(sout) :
              sout[c].values =
                  <<CsvHeader[c],
                    [k \in 1..Len(master_df) |-> InTable(CellOf(master_df[k], CsvHeader[c]))]>>

\* C21, where it fails: a row exported with its file's name and the status
\* valid comes back with source_file and link_status set to the empty string.
C21_MetadataOverwritten ==
    /\ pc = "done"
    /\ sout # <<>>
    /\ \E k \in 1..Len(master_df) :
          /\ master_df[k].link_status = "valid"
          /\ master_df[k].source_file = FileName(1)
    /\ \E c \in 1..Len(sout) : sout[c] = Column(S_link_status, EmptyValues)
    /\ \E c \in 1..Len(sout) : sout[c] = Column(S_source_file, EmptyValues)
    /\ \E c \in 1..Len(sout) : sout[c] = Column(S_date_processed, NowValues)

\* ------------------------- business_tools.py: sort_dataframe_alphabetically
\* A row of the table: its index label, its value in the sort column, and the
\* rest of the row.
SortRow(l, k, r) == [label |-> l, key |-> k, rest |-> r]

SortKeys == {<<"a">>, <<"A">>, <<"b">>}

\* Tables of up to MaxSortRows rows, labelled from 0, each row with its own
\* other values.
SortTables ==
    {[i \in 1..Len(ks) |-> SortRow(i - 1, ks[i], i)] : ks \in SeqsUpTo(SortKeys, MaxSortRows)}

\* Line 505: key=lambda x: x.astype(str).str.lower()
SortKey(row) == lower(str(row.key))

\* Python's < on strings of lower-case letters.
RECURSIVE StrLess(_, _)
StrLess(a, b) ==
    IF b = <<>> THEN FALSE
    ELSE IF a = <<>> THEN TRUE
    ELSE IF Head(a) = Head(b) THEN StrLess(Tail(a), Tail(b))
    ELSE (CHOOSE i \in 1..Len(LOWER) : LOWER[i] = Head(a))
             < (CHOOSE i \in 1..Len(LOWER) : LOWER[i] = Head(b))

\* The rows stand in the order of their keys, ascending or descending.
InKeyOrder(rows, asc) ==
    \A i \in 1..(Len(rows) - 1) :
        IF asc THEN ~StrLess(SortKey(rows[i + 1]), SortKey(rows[i]))
        ELSE ~StrLess(SortKey(rows[i]), SortKey(rows[i + 1]))

\* The tables that hold the rows of df, each once, in some order.
Reordered(df) ==
    {[i \in 1..Len(df) |-> df[f[i]]] :
        f \in {g \in [1..Len(df) -> 1..Len(df)] : \A a, b \in 1..Len(df) : g[a] = g[b] => a = b}}

\* Lines 504-506: sort_values(by=sort_column, ascending=ascending, key=...,
\* na_position='last'). No kind is given, so the sort is pandas' default
\* 'quicksort', which puts the rows in key order and does not promise an order
\* among rows of equal keys: every table in key order is an outcome.
sort_values(df, asc) == {r \in Reordered(df) : InKeyOrder(r, asc)}

\* Line 513: reset_index(drop=True): the rows are labelled from 0 again.
reset_index(df) == [i \in 1..Len(df) |-> [df[i] EXCEPT !.label = i - 1]]

\* Lines 484-522: what sort_dataframe_alphabetically(df, sort_column, ascending)
\* may return for a table whose sort column holds strings; an empty table is
\* returned as it is.
sort_dataframe_alphabetically(df, asc) ==
    IF df = <<>> THEN {df} ELSE {reset_index(r) : r \in sort_values(df, asc)}

\* Line 470: sort_dataframe_alphabetically is called.
SortCall ==
    /\ call = "idle"
    /\ sort_df' \in SortTables
    /\ ascending' \in BOOLEAN
    /\ sorted_df' = <<>>
    /\ call' = "sort"

\* Line 522: return sorted_df (line 487: return df).
SortReturn ==
    /\ call = "sort"
    /\ sorted_df' \in sort_dataframe_alphabetically(sort_df, ascending)
    /\ call' = "idle"
    /\ UNCHANGED <<sort_df, ascending>>

NextSort ==
    \/ SortCall /\ UNCHANGED <<bvars, pvars, evars, xvars, ivars, in_callback>>
    \/ SortReturn /\ UNCHANGED <<bvars, pvars, evars, xvars, ivars, in_callback>>

InitSort == InitValidator({DefaultMaxWorkers}) /\ InitProcessor /\ InitEnricher /\ InitExtra

SpecSort == InitSort /\ [][NextSort]_vars

\* The position in the table returned of the row that stood at position i of
\* the input.
SortedPosition(i) == CHOOSE p \in 1..Len(sorted_df) : sorted_df[p].rest = sort_df[i].rest

\* C22: sort_dataframe_alphabetically returns a permutation of the input rows,
\* in the order of the sort column compared without regard to case, ascending
\* or descending as the flag says, and two rows whose keys are equal ignoring
\* case stand in the output in the order they had in the input, in both
\* directions.
C22_SortedStablePermutation ==
    (call = "idle" /\ sort_df # <<>>) =>
        /\ Len(sorted_df) = Len(sort_df)
        /\ \A i \in 1..Len(sort_df) :
              \E p \in 1..Len(sorted_df) :
                  /\ sorted_df[p].rest = sort_df[i].rest
                  /\ sorted_df[p].key = sort_df[i].key
        /\ \A p, q \in 1..Len(sorted_df) : sorted_df[p].rest = sorted_df[q].rest => p = q
        /\ InKeyOrder(sorted_df, ascending)
        /\ \A i, j \in 1..Len(sort_df) :
              (i < j /\ SortKey(sort_df[i]) = SortKey(sort_df[j]))
                  => SortedPosition(i) < SortedPosition(j)

\* C22, where it fails: the rows "a" and "A" of an ascending sort come out as
\* "A", "a".
C22_EqualKeysReordered ==
    /\ call = "idle"
    /\ ascending
    /\ Len(sort_df) = 2
    /\ sort_df[1].key = <<"a">> /\ sort_df[2].key = <<"A">>
    /\ Len(sorted_df) = 2
    /\ sorted_df[1].rest = sort_df[2].rest
    /\ sorted_df[2].rest = sort_df[1].rest

\* process_files gave the progress callback this message about file f.
Told(kind, f) == \E i \in 1..Len(progress) : progress[i] = <<kind, f, n_files>>

\* The files the loop of process_files has been through.
FilesDone == IF pc = "idle" THEN {} ELSE 1..(file_i - 1)

\* C23: in process_files a file whose ingestion fails is reported through the
\* progress callback and skipped, and every other file of the list is still
\* processed, wherever the failing file stands: the loop goes through every
\* file, each file that did not fail has its table among those read, and when
\* the tables are combined every row read from a file that did not fail is in
\* the consolidated table, and no row of a failed file.
C23_FailedFileSkipped ==
    /\ \A f \in FilesDone : Told("Processing file", f)
    /\ Len(all_data) = Cardinality({f \in FilesDone : ~Told("Error processing", f)})
    /\ pc = "combined" =>
          /\ FilesDone = 1..n_files
          /\ Len(master_df) = RowsRead
          /\ \A k \in 1..Len(all_data) : \A i \in 1..Len(all_data[k]) :
                \E p \in 1..Len(master_df) :
                    /\ master_df[p].name = all_data[k][i].name
                    /\ master_df[p].url = all_data[k][i].url
                    /\ master_df[p].source_file = all_data[k][i].source_file
          /\ \A p \in 1..Len(master_df) :
                \A f \in 1..n_files :
                    master_df[p].source_file = FileName(f) => ~Told("Error processing", f)

\* C23: the first of two files failed, and the row of the second is in the
\* consolidated table.
C23_Witness ==
    /\ pc = "combined"
    /\ n_files = 2
    /\ Told("Error processing", 1)
    /\ ~Told("Error processing", 2)
    /\ \E p \in 1..Len(master_df) : master_df[p].source_file = FileName(2)

\* A to_csv call of process_files failed and ended the run.
WriteFailed == pc = "error" /\ raised # None /\ raised[1].at \in {MasterPath, ReportPath}

\* The text of the exception has the path of the file whose write failed.
NamesPath(e) == \E i \in 1..Len(e.message) : e.message[i] = e.at

Completed == \E i \in 1..Len(progress) : progress[i][1] = "Processing complete"

\* C24: when writing an output file fails, the run ends in an error that names
\* the path of the file it tried to write, and no completion message is given;
\* a completion message is given only when both files were written.
C24_FailedWriteNamesPath ==
    /\ WriteFailed => (NamesPath(raised[1]) /\ ~Completed)
    /\ Completed =>
          /\ raised = None
          /\ master_csv = Some(CsvOf(master_df))
          /\ validation_report = Some(ReportOf(master_df))

\* C24, where it fails: the write of the master CSV failed after the file was
\* opened, and the text of the error has no path in it.
C24_ErrorWithoutPath ==
    /\ WriteFailed
    /\ raised[1].at = MasterPath
    /\ raised[1].message = <<"[Errno 28] No space left on device">>
    /\ ~Completed

\* C25: when every request ends, a validate_urls_batch call that is under way
\* returns in the end, with one result for each of its N URLs, also when N is
\* greater than the width of the pool.
C25_BatchReturnsAllResults ==
    (bpc = "running") ~> (bpc = "returned" /\ Len(results) = Len(urls))

\* C25: a call with more URLs than workers has returned with all its results.
C25_Witness ==
    /\ bpc = "returned"
    /\ Len(urls) > max_workers
    /\ Len(results) = Len(urls)
    /\ \E j \in Jobs : Len(reqs[j]) = 2

\* The table validate_links_with_progress was called on in process_files.
BeforeValidation == DropDuplicates(Merged)

\* C26: validate_links_with_progress adds no row and removes none, writes one
\* validation result into each row that was there, and leaves every column
\* other than link_status, link_code and link_message as it was, also when
\* drop_duplicates has left row labels that are not 0..n-1.
C26_OneResultPerRowOthersKept ==
    pc = "validated" =>
        /\ Len(master_df) = Len(BeforeValidation)
        /\ \A p \in 1..Len(BeforeValidation) :
              /\ p <= Len(master_df)
              /\ master_df[p].label = BeforeValidation[p].label
              /\ master_df[p].name = BeforeValidation[p].name
              /\ master_df[p].url = BeforeValidation[p].url
              /\ master_df[p].source_file = BeforeValidation[p].source_file
              /\ \E j \in Jobs : LinkFieldsAre(master_df[p], jobres[j])

\* C26, where it fails: of three rows read the second was dropped as a
\* duplicate, so the rows are labelled 0 and 2; the second result is written
\* to label 1, which is added as a new row, and the row labelled 2 gets none.
C26_RowAddedAfterDedup ==
    /\ pc = "validated"
    /\ Len(BeforeValidation) = 2
    /\ BeforeValidation[1].label = 0 /\ BeforeValidation[2].label = 2
    /\ Len(master_df) = 3
    /\ master_df[2].label = 2 /\ master_df[2].link_status = ""
    /\ master_df[3].label = 1 /\ master_df[3].name = NaN
    /\ LinkFieldsAre(master_df[3], jobres[order[2]])

\* This run of process_files has opened the file for writing.
Touched(f) == f # NoFile /\ f # OldFile

\* C27: in process_files the master CSV and the validation report are written
\* only after the validation of every URL has ended and the results were
\* folded into the table; the report is written after the master CSV and has
\* the same rows; the message 'Processing complete' is the last one, given
\* only after both files were written.
C27_WritesAfterValidationThenComplete ==
    /\ (Touched(master_csv) \/ Touched(validation_report)) =>
          /\ bpc = "returned"
          /\ \A j \in Jobs : phase[j] = "collected"
          /\ Len(results) = Len(urls)
          /\ pc \in {"saved", "reported", "done", "error"}
    /\ Touched(validation_report) =>
          /\ master_csv = Some(CsvOf(master_df))
          /\ Len(validation_report[1]) <= Len(master_csv[1])
          /\ \A k \in 1..Len(validation_report[1]) :
                /\ validation_report[1][k].name = master_csv[1][k].name
                /\ validation_report[1][k].url = master_csv[1][k].url
                /\ validation_report[1][k].link_status = master_csv[1][k].link_status
    /\ pc \in {"reported", "done"} =>
          /\ Touched(master_csv) /\ Touched(validation_report)
          /\ Len(validation_report[1]) = Len(master_csv[1])
    /\ Completed =>
          /\ pc = "done"
          /\ progress[Len(progress)][1] = "Processing complete"
          /\ master_csv = Some(CsvOf(master_df))
          /\ validation_report = Some(ReportOf(master_df))

\* C27: a run over two URLs has written both files and given the message.
C27_Witness ==
    /\ Completed
    /\ Len(urls) = 2
    /\ Touched(master_csv) /\ Touched(validation_report)
    /\ Len(validation_report[1]) >= 2

\* ------------------------------------- the thread of progress_callback
\* The thread that called validate_urls_batch, and the pool thread that runs
\* future j.
Caller == <<"caller">>
PoolThread(j) == <<"worker", j>>

\* The callback run by the pool thread that finished the future (as a done
\* callback of the future would be).
CallbackThreadOfFuture(j) == PoolThread(j)

\* Lines 84-89: line 89 stands in the body of the as_completed loop of
\* validate_urls_batch, so the thread that runs the loop runs the callback.
CallbackThread(j) == Caller

\* Lines 84-89 with the time the callback takes: the loop takes the next
\* finished future when the calling thread is not inside the callback, and the
\* callback is entered.
CollectAndReport(j) ==
    /\ Caller \notin in_callback
    /\ Collect(j)
    /\ in_callback' = IF has_cb /\ phase[j] = "done"
                      THEN in_callback \cup {CallbackThread(j)}
                      ELSE in_callback

\* Lines 221-223: update_progress returns to the thread that called it.
CallbackReturns(t) ==
    /\ t \in in_callback
    /\ in_callback' = in_callback \ {t}
    /\ UNCHANGED bvars

\* Lines 90-91: the loop is over and the calling thread returns.
ReturnAfterLoop ==
    /\ Caller \notin in_callback
    /\ BatchReturn
    /\ UNCHANGED in_callback

NextCallback ==
    \/ BatchCall /\ UNCHANGED <<pvars, evars, xvars, rvars>>
    \/ \E j \in Jobs : WorkerStart(j) /\ UNCHANGED <<pvars, evars, xvars, rvars>>
    \/ \E j \in Jobs, o \in BatchOutcomes : HeadReturns(j, o) /\ UNCHANGED <<pvars, evars, xvars, rvars>>
    \/ \E j \in Jobs, o \in BatchOutcomes : GetReturns(j, o) /\ UNCHANGED <<pvars, evars, xvars, rvars>>
    \/ \E j \in Jobs : CollectAndReport(j) /\ UNCHANGED <<pvars, evars, xvars, call, svars, ivars>>
    \/ \E t \in in_callback : CallbackReturns(t) /\ UNCHANGED <<pvars, evars, xvars, call, svars, ivars>>
    \/ ReturnAfterLoop /\ UNCHANGED <<pvars, evars, xvars, call, svars, ivars>>

SpecCallback == InitBatch /\ [][NextCallback]_vars

\* C28: during validate_urls_batch only the thread that called it is ever
\* inside the progress callback, never a pool thread, so no two invocations
\* of the callback overlap, whatever the pool width and the order in which the
\* futures finish.
C28_CallbackOnCallingThread ==
    /\ in_callback \subseteq {Caller}
    /\ Cardinality(in_callback) <= 1
    /\ \A j \in Jobs : PoolThread(j) \notin in_callback

\* C28: the calling thread is inside the callback of the second result it
\* collected while a pool thread still has a request under way.
C28_Witness ==
    /\ in_callback = {Caller}
    /\ max_workers = 2
    /\ Len(calls) = 2
    /\ \E j \in Jobs : phase[j] \in {"head", "get"}

\* ------------------------------------- business_tools.py: import_data_file
\* The file that file_path names: whether it exists, its suffix in lower case,
\* the number of its lines, and whether pandas can parse it. A file that
\* parses has at least its header line.
ImportFile(e, x, n, p) == [exists |-> e, suffix |-> x, lines |-> n, parses |-> p]

ImportFiles ==
    {ImportFile(e, x, n, p) :
        e \in BOOLEAN, x \in {".csv", ".xlsx", ".txt"}, n \in 0..MaxFileLines, p \in BOOLEAN}
    \ {ImportFile(e, x, 0, TRUE) : e \in BOOLEAN, x \in {".csv", ".xlsx", ".txt"}}

\* Line 313: supported_formats
supported_formats == {".xlsx", ".xls", ".csv"}

\* Lines 431-432: lines = [next(f) for _ in range(10)]: next(f) raises
\* StopIteration when the file has no line left.
SniffRaises(file) == file.lines < SniffedLines

\* Lines 408-468: what import_data_file returns: None, or the table read (its
\* number of rows). Every exception raised inside the try, StopIteration too,
\* is caught at line 466 and None is returned. The enrichment, the sort and the
\* export of lines 449-462 are taken to succeed.
import_data_file(file) ==
    IF ~file.exists THEN None
    ELSE IF file.suffix \notin supported_formats THEN None
    ELSE IF file.suffix = ".csv"
    THEN IF SniffRaises(file) THEN None
         ELSE IF file.parses THEN Some([rows |-> file.lines - 1])
         ELSE None
    ELSE IF file.parses THEN Some([rows |-> file.lines])
    ELSE None

\* Line 393: import_data_file(file_path) is called.
ImportCall ==
    /\ call = "idle"
    /\ import_file' \in ImportFiles
    /\ imported' = None
    /\ call' = "import"

\* Lines 464 and 468: the call returns.
ImportReturn ==
    /\ call = "import"
    /\ imported' = import_data_file(import_file)
    /\ call' = "idle"
    /\ UNCHANGED import_file

NextImport ==
    \/ ImportCall /\ UNCHANGED <<bvars, pvars, evars, xvars, svars, in_callback>>
    \/ ImportReturn /\ UNCHANGED <<bvars, pvars, evars, xvars, svars, in_callback>>

SpecImport == InitSort /\ [][NextImport]_vars

\* C29: import_data_file returns a table, not a failure, for every .csv file
\* that exists and is well formed, whatever the number of its lines, also when
\* it has fewer than 10.
C29_CsvOfAnyLengthImported ==
    (call = "idle" /\ import_file.exists /\ import_file.suffix = ".csv" /\ import_file.parses)
        => imported # None

\* C29, where it fails: a well-formed .csv file of a header and two rows.
C29_ShortCsvGivesNone ==
    /\ call = "idle"
    /\ import_file = ImportFile(TRUE, ".csv", 3, TRUE)
    /\ imported = None

\* The loop of process_files is over and no file gave a table: every file
\* failed, or the list was empty.
NothingRead == pc \notin {"idle", "files"} /\ all_data = <<>>

\* C30: when every file fails ingestion, or the list of files is empty,
\* process_files ends with an error, removes no duplicates and validates no
\* link (no request is made), and writes neither the master CSV nor the
\* validation report: the output files stay as they were.
C30_NoInputEndsInError ==
    NothingRead =>
        /\ pc = "error"
        /\ raised = Some(ExceptionAt("all_data", <<"No files were successfully processed">>))
        /\ \A i \in 1..Len(progress) : progress[i][1] \in {"Processing file", "Error processing"}
        /\ master_df = <<>>
        /\ bpc = "idle" /\ urls = <<>> /\ reqs = <<>> /\ calls = <<>>
        /\ ~Touched(master_csv) /\ ~Touched(validation_report)

\* C30: both files of a list of two failed, and the output files of an
\* earlier run are as they were.
C30_Witness ==
    /\ NothingRead
    /\ n_files = 2
    /\ Told("Error processing", 1) /\ Told("Error processing", 2)
    /\ master_csv = OldFile /\ validation_report = OldFile

\* C30: the list of files was empty.
C30_WitnessEmptyList == NothingRead /\ n_files = 0 /\ pc = "error"

====
